---- MODULE Spec2Model ----
(***************************************************************************)
(* Model of scripts/dotnet-namespace-churn.py: the pattern classifier,     *)
(* the churn aggregator with its threshold filter, the numstat line parser *)
(* and the three history scans that turn history lines into change         *)
(* records, the author scan line by line, the namespace extractor, the     *)
(* ownership calculator, and the orchestrator (analyze and main) with its  *)
(* external commands, file reads and tabular export.                       *)
(*                                                                         *)
(* Text is modelled as a sequence of one-character strings, so that        *)
(* strip, split, int() and endswith are computed character by character.   *)
(* A Python dict is modelled as a sequence of entries in insertion order.  *)
(***************************************************************************)
EXTENDS Integers, Sequences, FiniteSets, TLC

VARIABLES
    pd_additions,   \* PatternDetector.detect_pattern: argument additions
    pd_deletions,   \* PatternDetector.detect_pattern: argument deletions
    pd_result,      \* its return value, "pending" before the call
    enhanced,       \* analyze(enhanced=...)
    all_changes,    \* analyze: all_changes, the collected change tuples
    aggregated,     \* analyze: aggregated (dict as a sequence of entries)
    min_threshold,  \* analyze(min_threshold=...)
    filtered,       \* analyze: filtered
    phase,          \* position of the aggregation pipeline
    line,           \* GitLogParser.parse_numstat_line: argument line
    parsed,         \* its outcome, Pending before the call
    git_status,     \* how the history command of the scanned unit ends
    git_stdout,     \* result.stdout of the history command
    unreadable,     \* the paths open() fails on
    scan,           \* the scan that ran: "none", "parent", "submodule", "author"
    scan_result,    \* what the scan returned
    ns_content,     \* NamespaceParser.extract_namespace: argument content
    ns_pieces,      \* the number of pieces of text the content is made of
    ns_filepath,    \* its argument filepath, empty before the call
    ns_result,      \* its return value, Pending before the call
    own_changes,    \* AuthorshipAnalyzer.calculate_ownership: author_changes
    own_result,     \* its return value, Pending before the call
    run_entry,      \* who calls analyze: "main" or the caller of "analyze"
    run_period,     \* analyze(period=...)
    run_format,     \* analyze(output_format=...)
    run_details,    \* analyze(show_details=...)
    run_submodules, \* analyze: submodules, Pending before get_submodules
    run_next,       \* analyze: position of the loop over submodules
    run_calls,      \* the external commands and queries run so far, in order
    run_opened,     \* the paths passed to open() so far
    run_output,     \* analyze: output, Pending before a formatter ran
    run_result,     \* what analyze returned or raised, Pending before
    exit_code,      \* what main returned, -1 before
    printed,        \* what main printed, Pending before
    au_submodule,   \* get_author_changes(submodule_path=...), empty if None
    au_read,        \* the lines of the author history its loop has read
    au_state,       \* its current_author and author_changes
    au_result       \* its return value, Pending before

patVars == <<pd_additions, pd_deletions, pd_result>>
aggVars == <<enhanced, all_changes, aggregated, min_threshold, filtered, phase>>
parseVars == <<line, parsed>>
scanVars == <<git_status, git_stdout, unreadable, scan, scan_result>>
extractVars == <<ns_content, ns_pieces, ns_filepath, ns_result>>
ownVars == <<own_changes, own_result>>
runVars == <<run_entry, run_period, run_format, run_details, run_submodules, run_next,
             run_calls, run_opened, run_output, run_result, exit_code, printed>>
authorVars == <<au_submodule, au_read, au_state, au_result>>
restVars == <<extractVars, ownVars, runVars, authorVars>>
vars == <<patVars, aggVars, parseVars, scanVars, restVars>>

----------------------------------------------------------------------------
(* Bounds *)

MaxLines == 1000
MaxChanges == 3
MaxFields == 4
MaxHistoryLines == 3
MaxPieces == 4
MaxObservations == 3

(* Program constants *)

ChurnMinLines == 600
RatioTenths == 7
BalanceTenths == 8

GLOBAL == "(global)"

----------------------------------------------------------------------------
(* Outcomes of a call, and the values of the variables a specification     *)
(* does not use                                                            *)

None == [kind |-> "None"]
Pending == [kind |-> "pending"]
Raised(exception) == [kind |-> "raised", exception |-> exception]
List(items) == [kind |-> "list", items |-> items]

PatIdle ==
    /\ pd_additions = 0
    /\ pd_deletions = 0
    /\ pd_result = "pending"

AggIdle ==
    /\ enhanced = FALSE
    /\ all_changes = <<>>
    /\ aggregated = <<>>
    /\ min_threshold = 0
    /\ filtered = <<>>
    /\ phase = "idle"

ParseIdle ==
    /\ line = <<>>
    /\ parsed = Pending

ScanIdle ==
    /\ git_status = "ok"
    /\ git_stdout = <<>>
    /\ unreadable = {}
    /\ scan = "none"
    /\ scan_result = Pending

ExtractIdle ==
    /\ ns_content = <<>>
    /\ ns_pieces = 0
    /\ ns_filepath = <<>>
    /\ ns_result = Pending

OwnIdle ==
    /\ own_changes = <<>>
    /\ own_result = Pending

RunIdle ==
    /\ run_entry = ""
    /\ run_period = ""
    /\ run_format = ""
    /\ run_details = FALSE
    /\ run_submodules = Pending
    /\ run_next = 0
    /\ run_calls = <<>>
    /\ run_opened = {}
    /\ run_output = Pending
    /\ run_result = Pending
    /\ exit_code = 0 - 1
    /\ printed = Pending

AuthorIdle ==
    /\ au_submodule = <<>>
    /\ au_read = <<>>
    /\ au_state = [current_author |-> <<>>, author_changes |-> <<>>]
    /\ au_result = Pending

RestIdle == ExtractIdle /\ OwnIdle /\ RunIdle /\ AuthorIdle

----------------------------------------------------------------------------
(* PatternDetector *)

\* the ratio test with a strict comparison
RatioAtLeast_Strict(num, total, tenths) ==
    IF total > 0 THEN 10 * num > tenths * total
                 ELSE 10 * num < tenths * total

\* the ratio test against one half
RatioAtLeast_Half(num, total, tenths) ==
    IF total > 0 THEN 2 * num >= total
                 ELSE 2 * num <= total

\* num / total >= tenths / 10 for total # 0.  The float comparison of the
\* source is exact for counts far below 2^53, the sign of total decides the
\* direction of the integer comparison.
RatioAtLeast(num, total, tenths) ==
    IF total > 0 THEN 10 * num >= tenths * total
                 ELSE 10 * num <= tenths * total

\* the balance test with a strict comparison
Balanced_Strict(other, count) == 10 * other > BalanceTenths * count

\* other >= count * 0.8
Balanced(other, count) == 10 * other >= BalanceTenths * count

detect_pattern(additions, deletions) ==
    LET total == additions + deletions IN
    IF total = 0 THEN "normal"
    ELSE IF RatioAtLeast(additions, total, RatioTenths) THEN "growth"
    ELSE IF RatioAtLeast(deletions, total, RatioTenths) THEN "cleanup"
    ELSE IF /\ additions > ChurnMinLines
            /\ deletions > ChurnMinLines
            /\ Balanced(deletions, additions)
            /\ Balanced(additions, deletions)
         THEN "churn"
    ELSE "normal"

----------------------------------------------------------------------------
(* Specification of the classifier alone: the arguments are drawn in Init  *)
(* and DetectPattern is the call.                                          *)

PatInit ==
    /\ pd_additions \in 0..MaxLines
    /\ pd_deletions \in 0..MaxLines
    /\ pd_result = "pending"

DetectPattern ==
    /\ pd_result = "pending"
    /\ pd_result' = detect_pattern(pd_additions, pd_deletions)
    /\ UNCHANGED <<pd_additions, pd_deletions, aggVars, parseVars, scanVars,
                   restVars>>

InitPattern == PatInit /\ AggIdle /\ ParseIdle /\ ScanIdle /\ RestIdle
NextPattern == DetectPattern
SpecPattern == InitPattern /\ [][NextPattern]_vars

----------------------------------------------------------------------------
(* Properties of the classifier *)

Classified == pd_result # "pending"

GrowthCondition(a, d) == a + d > 0 /\ 10 * a >= 7 * (a + d)
CleanupCondition(a, d) == a + d > 0 /\ 10 * d >= 7 * (a + d)

\* C3: detect_pattern(a, d) is normal when a + d = 0, growth whenever
\* a + d > 0 and a/(a+d) >= 0.7, and cleanup whenever a + d > 0, the growth
\* condition fails and d/(a+d) >= 0.7, whatever the absolute size.
C3_GrowthCleanup ==
    Classified =>
        LET a == pd_additions
            d == pd_deletions
        IN /\ a + d = 0 => pd_result = "normal"
           /\ GrowthCondition(a, d) => pd_result = "growth"
           /\ (~GrowthCondition(a, d) /\ CleanupCondition(a, d))
                  => pd_result = "cleanup"
           /\ (a = 700 /\ d = 300) => pd_result = "growth"
           /\ (a = 300 /\ d = 700) => pd_result = "cleanup"
           /\ (a = 1 /\ d = 0) => pd_result = "growth"
           /\ (a = 0 /\ d = 1) => pd_result = "cleanup"

C3_Witness ==
    /\ pd_additions = 700
    /\ pd_deletions = 300
    /\ pd_result = "growth"

\* C4: for inputs that are neither growth nor cleanup, detect_pattern(a, d)
\* is churn if and only if a > 600, d > 600, d >= 0.8 a and a >= 0.8 d, and
\* normal otherwise; the result is one of the four labels; (1000, 900) and
\* (1000, 800) are churn, (1000, 799) is not, (600, 500) and (1, 1) are
\* normal, and a count of exactly 600 never gives churn.
C4_ChurnRule ==
    Classified =>
        LET a == pd_additions
            d == pd_deletions
            churn == /\ a > 600
                     /\ d > 600
                     /\ 10 * d >= 8 * a
                     /\ 10 * a >= 8 * d
        IN /\ pd_result \in {"churn", "growth", "cleanup", "normal"}
           /\ (~GrowthCondition(a, d) /\ ~CleanupCondition(a, d))
                  => /\ pd_result = "churn" <=> churn
                     /\ pd_result = "normal" <=> ~churn
           /\ (a = 1000 /\ d = 900) => pd_result = "churn"
           /\ (a = 1000 /\ d = 800) => pd_result = "churn"
           /\ (a = 1000 /\ d = 799) => pd_result # "churn"
           /\ (a = 600 /\ d = 500) => pd_result = "normal"
           /\ (a = 1 /\ d = 1) => pd_result = "normal"
           /\ (a = 600 \/ d = 600) => pd_result # "churn"

C4_Witness ==
    /\ pd_additions = 1000
    /\ pd_deletions = 800
    /\ pd_result = "churn"

----------------------------------------------------------------------------
(* ChurnAggregator *)

\* Inputs of the aggregation specification
Namespaces == {GLOBAL, "App.Core"}
Paths == {"a.cs", "b.vb"}
CountPairs == {<<0, 0>>, <<1, 0>>, <<0, 1>>, <<700, 0>>, <<0, 700>>}
Thresholds == {1, 700, 701}

\* position of namespace ns in a dict, 0 when it is not a key
RECURSIVE KeyIndexFrom(_, _, _)
KeyIndexFrom(dict, ns, i) ==
    IF i > Len(dict) THEN 0
    ELSE IF dict[i].namespace = ns THEN i
    ELSE KeyIndexFrom(dict, ns, i + 1)

KeyIndex(dict, ns) == KeyIndexFrom(dict, ns, 1)

Keys(dict) == {dict[i].namespace : i \in 1..Len(dict)}

\* list.sort(key=..., reverse=True): stable, elements with equal keys keep
\* their relative order.  InsertDesc puts e behind every element whose key is
\* at least its own.
\* an insertion that puts e in front of the elements of equal key
RECURSIVE InsertDesc_Unstable(_, _, _)
InsertDesc_Unstable(sorted, e, key) ==
    IF sorted = <<>> THEN <<e>>
    ELSE IF Head(sorted)[key] > e[key]
         THEN <<Head(sorted)>> \o InsertDesc_Unstable(Tail(sorted), e, key)
    ELSE <<e>> \o sorted

RECURSIVE InsertDesc(_, _, _)
InsertDesc(sorted, e, key) ==
    IF sorted = <<>> THEN <<e>>
    ELSE IF Head(sorted)[key] >= e[key]
         THEN <<Head(sorted)>> \o InsertDesc(Tail(sorted), e, key)
    ELSE <<e>> \o sorted

RECURSIVE SortDescFrom(_, _, _)
SortDescFrom(list, sorted, key) ==
    IF list = <<>> THEN sorted
    ELSE SortDescFrom(Tail(list), InsertDesc(sorted, Head(list), key), key)

\* key is the name of the field the lambda of the source selects
SortDesc(list, key) == SortDescFrom(list, <<>>, key)

\* aggregate, the folding loop: one change tuple (namespace, lines, filepath)
FoldBasic_LastLines(result, c) ==
    LET fresh == [namespace |-> c.namespace, lines_changed |-> 0,
                  file_count |-> 0, files |-> <<>>]
        dict == IF KeyIndex(result, c.namespace) = 0
                THEN Append(result, fresh) ELSE result
        k == KeyIndex(dict, c.namespace)
        m == dict[k]
    IN [dict EXCEPT ![k] =
            [m EXCEPT !.lines_changed = c.lines,
                      !.file_count = m.file_count + 1,
                      !.files = Append(m.files,
                                       [path |-> c.path, lines |-> c.lines])]]

FoldBasic(result, c) ==
    LET fresh == [namespace |-> c.namespace, lines_changed |-> 0,
                  file_count |-> 0, files |-> <<>>]
        dict == IF KeyIndex(result, c.namespace) = 0
                THEN Append(result, fresh) ELSE result
        k == KeyIndex(dict, c.namespace)
        m == dict[k]
    IN [dict EXCEPT ![k] =
            [m EXCEPT !.lines_changed = m.lines_changed + c.lines,
                      !.file_count = m.file_count + 1,
                      !.files = Append(m.files,
                                       [path |-> c.path, lines |-> c.lines])]]

RECURSIVE FoldAllBasic(_, _)
FoldAllBasic(changes, result) ==
    IF changes = <<>> THEN result
    ELSE FoldAllBasic(Tail(changes), FoldBasic(result, Head(changes)))

aggregate(changes) ==
    LET result == FoldAllBasic(changes, <<>>) IN
    [i \in 1..Len(result) |->
        [result[i] EXCEPT !.files = SortDesc(result[i].files, "lines")]]

\* the fold with total accumulating the additions only
FoldDetails_TotalAdditionsOnly(result, c) ==
    LET fresh == [namespace |-> c.namespace, additions |-> 0, deletions |-> 0,
                  total |-> 0, file_count |-> 0, files |-> <<>>,
                  pattern |-> "normal"]
        dict == IF KeyIndex(result, c.namespace) = 0
                THEN Append(result, fresh) ELSE result
        k == KeyIndex(dict, c.namespace)
        m == dict[k]
    IN [dict EXCEPT ![k] =
            [m EXCEPT !.additions = m.additions + c.additions,
                      !.deletions = m.deletions + c.deletions,
                      !.total = m.total + c.additions,
                      !.file_count = m.file_count + 1,
                      !.files = Append(m.files,
                                       [path |-> c.path,
                                        additions |-> c.additions,
                                        deletions |-> c.deletions,
                                        total |-> c.additions + c.deletions])]]

\* the fold counting a path that is already listed only once
FoldDetails_CountPathOnce(result, c) ==
    LET fresh == [namespace |-> c.namespace, additions |-> 0, deletions |-> 0,
                  total |-> 0, file_count |-> 0, files |-> <<>>,
                  pattern |-> "normal"]
        dict == IF KeyIndex(result, c.namespace) = 0
                THEN Append(result, fresh) ELSE result
        k == KeyIndex(dict, c.namespace)
        m == dict[k]
        seen == \E j \in 1..Len(m.files) : m.files[j].path = c.path
    IN [dict EXCEPT ![k] =
            [m EXCEPT !.additions = m.additions + c.additions,
                      !.deletions = m.deletions + c.deletions,
                      !.total = m.total + (c.additions + c.deletions),
                      !.file_count = IF seen THEN m.file_count
                                     ELSE m.file_count + 1,
                      !.files = Append(m.files,
                                       [path |-> c.path,
                                        additions |-> c.additions,
                                        deletions |-> c.deletions,
                                        total |-> c.additions + c.deletions])]]

\* aggregate_with_details, the folding loop: one change tuple
\* (namespace, additions, deletions, filepath)
FoldDetails_LastDeletions(result, c) ==
    LET fresh == [namespace |-> c.namespace, additions |-> 0, deletions |-> 0,
                  total |-> 0, file_count |-> 0, files |-> <<>>,
                  pattern |-> "normal"]
        dict == IF KeyIndex(result, c.namespace) = 0
                THEN Append(result, fresh) ELSE result
        k == KeyIndex(dict, c.namespace)
        m == dict[k]
    IN [dict EXCEPT ![k] =
            [m EXCEPT !.additions = m.additions + c.additions,
                      !.deletions = c.deletions,
                      !.total = m.total + (c.additions + c.deletions),
                      !.file_count = m.file_count + 1,
                      !.files = Append(m.files,
                                       [path |-> c.path,
                                        additions |-> c.additions,
                                        deletions |-> c.deletions,
                                        total |-> c.additions + c.deletions])]]

FoldDetails(result, c) ==
    LET fresh == [namespace |-> c.namespace, additions |-> 0, deletions |-> 0,
                  total |-> 0, file_count |-> 0, files |-> <<>>,
                  pattern |-> "normal"]
        dict == IF KeyIndex(result, c.namespace) = 0
                THEN Append(result, fresh) ELSE result
        k == KeyIndex(dict, c.namespace)
        m == dict[k]
    IN [dict EXCEPT ![k] =
            [m EXCEPT !.additions = m.additions + c.additions,
                      !.deletions = m.deletions + c.deletions,
                      !.total = m.total + (c.additions + c.deletions),
                      !.file_count = m.file_count + 1,
                      !.files = Append(m.files,
                                       [path |-> c.path,
                                        additions |-> c.additions,
                                        deletions |-> c.deletions,
                                        total |-> c.additions + c.deletions])]]

RECURSIVE FoldAllDetails(_, _)
FoldAllDetails(changes, result) ==
    IF changes = <<>> THEN result
    ELSE FoldAllDetails(Tail(changes), FoldDetails(result, Head(changes)))

\* the pattern taken from the first file of the namespace
ClassifyNamespace_FirstFile(m) ==
    detect_pattern(m.files[1].additions, m.files[1].deletions)

\* the pattern of one namespace, from its summed additions and deletions
ClassifyNamespace(m) == detect_pattern(m.additions, m.deletions)

aggregate_with_details(changes) ==
    LET result == FoldAllDetails(changes, <<>>) IN
    [i \in 1..Len(result) |->
        [result[i] EXCEPT !.files = SortDesc(result[i].files, "total"),
                          !.pattern = ClassifyNamespace(result[i])]]

\* the filter with an exclusive boundary
RECURSIVE SelectEntries_Exclusive(_, _, _)
SelectEntries_Exclusive(dict, key, threshold) ==
    IF dict = <<>> THEN <<>>
    ELSE IF Head(dict)[key] > threshold
         THEN <<Head(dict)>>
                  \o SelectEntries_Exclusive(Tail(dict), key, threshold)
    ELSE SelectEntries_Exclusive(Tail(dict), key, threshold)

\* {ns: metrics for ns, metrics in dict.items() if metrics[key] >= threshold}
RECURSIVE SelectEntries(_, _, _)
SelectEntries(dict, key, threshold) ==
    IF dict = <<>> THEN <<>>
    ELSE IF Head(dict)[key] >= threshold
         THEN <<Head(dict)>> \o SelectEntries(Tail(dict), key, threshold)
    ELSE SelectEntries(Tail(dict), key, threshold)

filter_by_threshold(dict, threshold) ==
    SelectEntries(dict, "lines_changed", threshold)

\* the dict comprehension of analyze in enhanced mode
filter_enhanced(dict, threshold) ==
    SelectEntries(dict, "total", threshold)

----------------------------------------------------------------------------
(* Specification of the aggregation pipeline: change tuples are collected  *)
(* one by one, then aggregated, then filtered by the threshold.            *)

\* the tuple appended for one history line, by mode
ChangeTuple(isEnhanced, namespace, added, deleted, filepath) ==
    IF isEnhanced
    THEN [namespace |-> namespace, additions |-> added,
          deletions |-> deleted, path |-> filepath]
    ELSE [namespace |-> namespace, lines |-> added + deleted,
          path |-> filepath]

AggInit ==
    /\ enhanced \in BOOLEAN
    /\ all_changes = <<>>
    /\ aggregated = <<>>
    /\ min_threshold \in Thresholds
    /\ filtered = <<>>
    /\ phase = "collect"

AppendChange ==
    /\ phase = "collect"
    /\ Len(all_changes) < MaxChanges
    /\ \E namespace \in Namespaces, counts \in CountPairs, filepath \in Paths :
          all_changes' = Append(all_changes,
              ChangeTuple(enhanced, namespace, counts[1], counts[2], filepath))
    /\ UNCHANGED <<enhanced, aggregated, min_threshold, filtered, phase, patVars, parseVars, scanVars,
                   restVars>>

Aggregate ==
    /\ phase = "collect"
    /\ ~enhanced
    /\ aggregated' = aggregate(all_changes)
    /\ phase' = "aggregated"
    /\ UNCHANGED <<enhanced, all_changes, min_threshold, filtered, patVars, parseVars, scanVars,
                   restVars>>

AggregateWithDetails ==
    /\ phase = "collect"
    /\ enhanced
    /\ aggregated' = aggregate_with_details(all_changes)
    /\ phase' = "aggregated"
    /\ UNCHANGED <<enhanced, all_changes, min_threshold, filtered, patVars, parseVars, scanVars,
                   restVars>>

FilterByThreshold ==
    /\ phase = "aggregated"
    /\ ~enhanced
    /\ filtered' = filter_by_threshold(aggregated, min_threshold)
    /\ phase' = "filtered"
    /\ UNCHANGED <<enhanced, all_changes, aggregated, min_threshold, patVars, parseVars, scanVars,
                   restVars>>

FilterEnhanced ==
    /\ phase = "aggregated"
    /\ enhanced
    /\ filtered' = filter_enhanced(aggregated, min_threshold)
    /\ phase' = "filtered"
    /\ UNCHANGED <<enhanced, all_changes, aggregated, min_threshold, patVars, parseVars, scanVars,
                   restVars>>

Init == AggInit /\ PatIdle /\ ParseIdle /\ ScanIdle /\ RestIdle
Next ==
    \/ AppendChange
    \/ Aggregate
    \/ AggregateWithDetails
    \/ FilterByThreshold
    \/ FilterEnhanced
Spec == Init /\ [][Next]_vars

----------------------------------------------------------------------------
(* Text: a str is a sequence of one-character strings *)

TAB == "\t"
NEWLINE == "\n"

\* the characters str.strip() removes, among those of the model's texts
Whitespace == {" ", "\t", "\n", "\r"}

Digits == {"0", "1", "2", "3", "4", "5", "6", "7", "8", "9"}

DigitValue(c) ==
    CASE c = "0" -> 0 [] c = "1" -> 1 [] c = "2" -> 2 [] c = "3" -> 3
      [] c = "4" -> 4 [] c = "5" -> 5 [] c = "6" -> 6 [] c = "7" -> 7
      [] c = "8" -> 8 [] c = "9" -> 9

\* str.lstrip(chars)
RECURSIVE LStripChars(_, _)
LStripChars(s, chars) ==
    IF s # <<>> /\ Head(s) \in chars THEN LStripChars(Tail(s), chars) ELSE s

\* str.rstrip(chars)
RECURSIVE RStripChars(_, _)
RStripChars(s, chars) ==
    IF s # <<>> /\ s[Len(s)] \in chars
    THEN RStripChars(SubSeq(s, 1, Len(s) - 1), chars)
    ELSE s

\* str.strip(chars)
StripChars(s, chars) == RStripChars(LStripChars(s, chars), chars)

\* str.strip()
Strip(s) == StripChars(s, Whitespace)

\* str.split(sep) for a one-character separator: the list of the fields
\* between the separators, one more than there are separators
RECURSIVE SplitFrom(_, _, _, _)
SplitFrom(s, sep, fields, current) ==
    IF s = <<>> THEN Append(fields, current)
    ELSE IF Head(s) = sep
         THEN SplitFrom(Tail(s), sep, Append(fields, current), <<>>)
    ELSE SplitFrom(Tail(s), sep, fields, Append(current, Head(s)))

Split(s, sep) == SplitFrom(s, sep, <<>>, <<>>)

\* sep in s
Contains(s, c) == \E i \in 1..Len(s) : s[i] = c

\* str.endswith(suffix)
EndsWith(s, suffix) ==
    /\ Len(s) >= Len(suffix)
    /\ SubSeq(s, Len(s) - Len(suffix) + 1, Len(s)) = suffix

\* the digits of an int() literal: digits, single underscores between them
RECURSIVE DigitsValue(_, _, _)
DigitsValue(s, acc, afterDigit) ==
    IF s = <<>> THEN (IF afterDigit THEN acc ELSE -1)
    ELSE IF Head(s) \in Digits
         THEN DigitsValue(Tail(s), 10 * acc + DigitValue(Head(s)), TRUE)
    ELSE IF Head(s) = "_" /\ afterDigit
         THEN DigitsValue(Tail(s), acc, FALSE)
    ELSE -1

\* int(text): surrounding whitespace is ignored, one sign is allowed, then
\* decimal digits; anything else is a ValueError
PyInt(text) ==
    LET t == Strip(text)
        signed == t # <<>> /\ Head(t) \in {"+", "-"}
        body == IF signed THEN Tail(t) ELSE t
        magnitude == DigitsValue(body, 0, FALSE)
    IN IF magnitude < 0 THEN [ok |-> FALSE, value |-> 0]
       ELSE IF signed /\ Head(t) = "-" THEN [ok |-> TRUE, value |-> 0 - magnitude]
       ELSE [ok |-> TRUE, value |-> magnitude]

----------------------------------------------------------------------------
(* GitLogParser *)

\* the body of the try statement: (int(added), int(deleted), filepath)
ParseCounts(added, deleted, filepath) ==
    IF PyInt(added).ok /\ PyInt(deleted).ok
    THEN [kind |-> "tuple", added |-> PyInt(added).value,
          deleted |-> PyInt(deleted).value, filepath |-> filepath]
    ELSE Raised("ValueError")

\* the parser without the strip of the line
parse_numstat_line_NoStrip(text) ==
    LET parts == Split(text, TAB) IN
    IF Len(parts) # 3 THEN None
    ELSE IF parts[1] = <<"-">> \/ parts[2] = <<"-">> THEN None
    ELSE LET outcome == ParseCounts(parts[1], parts[2], parts[3]) IN
         IF outcome = Raised("ValueError") THEN None ELSE outcome

parse_numstat_line(text) ==
    LET parts == Split(Strip(text), TAB) IN
    IF Len(parts) # 3 THEN None
    ELSE IF parts[1] = <<"-">> \/ parts[2] = <<"-">> THEN None
    ELSE LET outcome == ParseCounts(parts[1], parts[2], parts[3]) IN
         IF outcome = Raised("ValueError") THEN None ELSE outcome

DotCs == <<".", "c", "s">>
DotVb == <<".", "v", "b">>

\* the predicate without the dot of the extension
is_dotnet_file_NoDot(filepath) ==
    EndsWith(filepath, <<"c", "s">>) \/ EndsWith(filepath, <<"v", "b">>)

is_dotnet_file(filepath) ==
    EndsWith(filepath, DotCs) \/ EndsWith(filepath, DotVb)

----------------------------------------------------------------------------
(* Specification of the line parser: a line is put together from fields    *)
(* joined by tabs, then parsed.                                            *)

FieldSamples ==
    { <<>>,
      <<"7">>,
      <<"4", "5">>,
      <<"-", "5">>,
      <<"+", "3">>,
      <<" ", "7">>,
      <<"1", "_", "0">>,
      <<"-">>,
      <<"7", "x">>,
      <<"a", ".", "c", "s">>,
      <<"b", ".", "v", "b">>,
      <<"c", ".", "C", "S">>,
      <<"d", "c", "s">>,
      <<"e", ".", "c", "s", " ">> }

NumFields(text) == Len(Split(text, TAB))

ParseInit ==
    /\ line \in FieldSamples
    /\ parsed = Pending

AppendField ==
    /\ parsed = Pending
    /\ NumFields(line) < MaxFields
    /\ \E field \in FieldSamples : line' = line \o <<TAB>> \o field
    /\ UNCHANGED <<parsed, patVars, aggVars, scanVars, restVars>>

ParseNumstatLine ==
    /\ parsed = Pending
    /\ parsed' = parse_numstat_line(line)
    /\ UNCHANGED <<line, patVars, aggVars, scanVars, restVars>>

InitParse == ParseInit /\ PatIdle /\ AggIdle /\ ScanIdle /\ RestIdle
NextParse ==
    \/ AppendField
    \/ ParseNumstatLine
SpecParse == InitParse /\ [][NextParse]_vars

----------------------------------------------------------------------------
(* The three scans of the history output *)

SubmodulePath == <<"s">>

\* os.path.join(directory, filepath)
PathJoin(directory, filepath) ==
    IF filepath # <<>> /\ Head(filepath) = "/" THEN filepath
    ELSE IF directory = <<>> \/ directory[Len(directory)] = "/"
         THEN directory \o filepath
    ELSE directory \o <<"/">> \o filepath

\* the namespace extract_namespace finds in the content of a file that can
\* be read; the files of the modelled trees
FileNamespace(full_path) ==
    CASE full_path = <<"a", ".", "c", "s">> -> "App.Core"
      [] full_path = <<"b", ".", "v", "b">> -> "App.Data"
      [] full_path = <<"s", "/", "a", ".", "c", "s">> -> "Lib.Core"
      [] OTHER -> GLOBAL

\* an extraction that does not notice that open() fails
ExtractNamespaceFromFile_ReadsAnyway(filepath, submodule_path) ==
    FileNamespace(IF submodule_path # <<>>
                  THEN PathJoin(submodule_path, filepath)
                  ELSE filepath)

\* _extract_namespace_from_file of NamespaceChurnAnalyzer and of
\* AuthorshipAnalyzer; submodule_path <<>> stands for None
ExtractNamespaceFromFile(filepath, submodule_path) ==
    LET full_path == IF submodule_path # <<>>
                     THEN PathJoin(submodule_path, filepath)
                     ELSE filepath
    IN IF full_path \in unreadable THEN GLOBAL ELSE FileNamespace(full_path)

\* result.stdout.strip().split('\n')
OutputLines(stdout) == Split(Strip(stdout), NEWLINE)

\* _analyze_repository, the body of the loop over the lines
RepositoryLine(changes, text, submodule_path, isEnhanced) ==
    IF text = <<>> THEN changes
    ELSE LET p == parse_numstat_line(text) IN
         IF p = None THEN changes
         ELSE IF ~is_dotnet_file(p.filepath) THEN changes
         ELSE Append(changes,
                     ChangeTuple(isEnhanced,
                                 ExtractNamespaceFromFile(p.filepath,
                                                          submodule_path),
                                 p.added, p.deleted, p.filepath))

RECURSIVE RepositoryLines(_, _, _, _)
RepositoryLines(lines, changes, submodule_path, isEnhanced) ==
    IF lines = <<>> THEN changes
    ELSE RepositoryLines(Tail(lines),
                         RepositoryLine(changes, Head(lines), submodule_path,
                                        isEnhanced),
                         submodule_path, isEnhanced)

\* a scan that takes 'not a git repository' for any other failure
analyze_repository_NeverRaises(status, stdout, submodule_path, isEnhanced) ==
    IF status # "ok" THEN List(<<>>)
    ELSE List(RepositoryLines(OutputLines(stdout), <<>>, submodule_path,
                              isEnhanced))

\* a scan that raises on every non-zero status
analyze_repository_AlwaysRaises(status, stdout, submodule_path, isEnhanced) ==
    IF status # "ok" THEN Raised("RuntimeError")
    ELSE List(RepositoryLines(OutputLines(stdout), <<>>, submodule_path,
                              isEnhanced))

\* _analyze_repository: the change tuples, or the RuntimeError raised
analyze_repository(status, stdout, submodule_path, isEnhanced) ==
    IF status # "ok"
    THEN IF status = "not_a_repository" THEN Raised("RuntimeError")
         ELSE List(<<>>)
    ELSE List(RepositoryLines(OutputLines(stdout), <<>>, submodule_path,
                              isEnhanced))

\* SubmoduleAnalyzer.analyze_submodule, the body of the loop over the lines
SubmoduleLine(results, text, submodule_path) ==
    IF text = <<>> THEN results
    ELSE LET p == parse_numstat_line(text) IN
         IF p # None /\ is_dotnet_file(p.filepath)
         THEN Append(results,
                     [submodule |-> submodule_path, added |-> p.added,
                      deleted |-> p.deleted,
                      filepath |-> submodule_path \o <<"/">> \o p.filepath])
         ELSE results

RECURSIVE SubmoduleLines(_, _, _)
SubmoduleLines(lines, results, submodule_path) ==
    IF lines = <<>> THEN results
    ELSE SubmoduleLines(Tail(lines),
                        SubmoduleLine(results, Head(lines), submodule_path),
                        submodule_path)

\* SubmoduleAnalyzer.analyze_submodule: None when the directory is missing,
\* is not a repository or the history command fails
analyze_submodule(status, stdout, submodule_path) ==
    IF status # "ok" THEN None
    ELSE List(SubmoduleLines(OutputLines(stdout), <<>>, submodule_path))

RECURSIVE SubmoduleTuples(_, _)
SubmoduleTuples(results, isEnhanced) ==
    IF results = <<>> THEN <<>>
    ELSE <<ChangeTuple(isEnhanced,
                       ExtractNamespaceFromFile(Head(results).filepath, <<>>),
                       Head(results).added, Head(results).deleted,
                       Head(results).filepath)>>
             \o SubmoduleTuples(Tail(results), isEnhanced)

\* _analyze_submodule_changes
analyze_submodule_changes(status, stdout, submodule_path, isEnhanced) ==
    LET results == analyze_submodule(status, stdout, submodule_path) IN
    IF results = None \/ results.items = <<>> THEN <<>>
    ELSE SubmoduleTuples(results.items, isEnhanced)

\* position of author in author_changes, 0 when it is not a key
RECURSIVE AuthorIndexFrom(_, _, _)
AuthorIndexFrom(dict, author, i) ==
    IF i > Len(dict) THEN 0
    ELSE IF dict[i].author = author THEN i
    ELSE AuthorIndexFrom(dict, author, i + 1)

AuthorIndex(dict, author) == AuthorIndexFrom(dict, author, 1)

\* get_author_changes, the body of the loop over the lines; st holds
\* author_changes and current_author (<<>> stands for None and for '')
AuthorLine_NewList(st, text, submodule_path) ==
    IF Strip(text) = <<>> THEN st
    ELSE IF ~Contains(text, TAB)
    THEN LET name == StripChars(Strip(text), {"'"})
             k == AuthorIndex(st.author_changes, name)
         IN
         [current_author |-> name,
          author_changes |->
              IF name = <<>> THEN st.author_changes
              ELSE IF k = 0
              THEN Append(st.author_changes,
                          [author |-> name, changes |-> <<>>])
              ELSE [st.author_changes EXCEPT ![k].changes = <<>>]]
    ELSE IF st.current_author = <<>> THEN st
    ELSE LET p == parse_numstat_line(text) IN
         IF p # None /\ is_dotnet_file(p.filepath)
         THEN LET k == AuthorIndex(st.author_changes, st.current_author) IN
              [st EXCEPT !.author_changes[k].changes =
                  Append(@, [namespace |->
                                 ExtractNamespaceFromFile(p.filepath,
                                                          submodule_path),
                             path |-> p.filepath,
                             lines |-> p.added + p.deleted])]
         ELSE st

AuthorLine(st, text, submodule_path) ==
    IF Strip(text) = <<>> THEN st
    ELSE IF ~Contains(text, TAB)
    THEN LET name == StripChars(Strip(text), {"'"}) IN
         [current_author |-> name,
          author_changes |->
              IF name # <<>> /\ AuthorIndex(st.author_changes, name) = 0
              THEN Append(st.author_changes,
                          [author |-> name, changes |-> <<>>])
              ELSE st.author_changes]
    ELSE IF st.current_author = <<>> THEN st
    ELSE LET p == parse_numstat_line(text) IN
         IF p # None /\ is_dotnet_file(p.filepath)
         THEN LET k == AuthorIndex(st.author_changes, st.current_author) IN
              [st EXCEPT !.author_changes[k].changes =
                  Append(@, [namespace |->
                                 ExtractNamespaceFromFile(p.filepath,
                                                          submodule_path),
                             path |-> p.filepath,
                             lines |-> p.added + p.deleted])]
         ELSE st

RECURSIVE AuthorLines(_, _, _)
AuthorLines(lines, st, submodule_path) ==
    IF lines = <<>> THEN st
    ELSE AuthorLines(Tail(lines), AuthorLine(st, Head(lines), submodule_path),
                     submodule_path)

\* AuthorshipAnalyzer.get_author_changes
get_author_changes(status, stdout, submodule_path) ==
    IF status # "ok" THEN <<>>
    ELSE AuthorLines(OutputLines(stdout),
                     [current_author |-> <<>>, author_changes |-> <<>>],
                     submodule_path).author_changes

----------------------------------------------------------------------------
(* Specification of the scans: the history command of one repository unit  *)
(* prints its lines, then one of the scans reads the output.               *)

HistoryLineSamples ==
    { <<>>,
      <<"7", "\t", "1", "\t", "a", ".", "c", "s">>,
      <<"2", "\t", "0", "\t", "b", ".", "v", "b">>,
      <<"3", "\t", "3", "\t", "c", ".", "j", "s">>,
      <<"-", "\t", "-", "\t", "d", ".", "c", "s">>,
      <<"5", "\t", "5", "\t", "e", ".", "C", "S">>,
      <<"4", "\t", "x", "\t", "a", ".", "c", "s">>,
      <<"6", "\t", "0", "\t", "d", "c", "s">>,
      <<"A">>,
      <<"'", "B", "'">> }

GitStatuses == {"ok", "not_a_repository", "failed", "no_directory"}

UnreadableSets ==
    SUBSET { <<"a", ".", "c", "s">>, <<"s", "/", "a", ".", "c", "s">> }

NumLines(stdout) == Cardinality({i \in 1..Len(stdout) : stdout[i] = NEWLINE})

ScanInit ==
    /\ git_status \in GitStatuses
    /\ git_stdout = <<>>
    /\ unreadable \in UnreadableSets
    /\ scan = "none"
    /\ scan_result = Pending
    /\ enhanced \in BOOLEAN
    /\ all_changes = <<>>
    /\ aggregated = <<>>
    /\ min_threshold = 0
    /\ filtered = <<>>
    /\ phase = "idle"

\* the history command prints one more line
EmitLine ==
    /\ scan = "none"
    /\ git_status = "ok"
    /\ NumLines(git_stdout) < MaxHistoryLines
    /\ \E text \in HistoryLineSamples :
          git_stdout' = git_stdout \o text \o <<NEWLINE>>
    /\ UNCHANGED <<git_status, unreadable, scan, scan_result,
                   patVars, aggVars, parseVars, restVars>>

\* the scan of the parent repository
AnalyzeRepository ==
    /\ scan = "none"
    /\ git_status # "no_directory"
    /\ scan' = "parent"
    /\ scan_result' = analyze_repository(git_status, git_stdout, <<>>, enhanced)
    /\ UNCHANGED <<git_status, git_stdout, unreadable,
                   patVars, aggVars, parseVars, restVars>>

\* the scan of a sub-repository
AnalyzeSubmoduleChanges ==
    /\ scan = "none"
    /\ scan' = "submodule"
    /\ scan_result' = List(analyze_submodule_changes(git_status, git_stdout,
                                                     SubmodulePath, enhanced))
    /\ UNCHANGED <<git_status, git_stdout, unreadable,
                   patVars, aggVars, parseVars, restVars>>

\* the author scan, of the parent repository or of a sub-repository
GetAuthorChanges ==
    /\ scan = "none"
    /\ git_status # "no_directory"
    /\ scan' = "author"
    /\ \E submodule_path \in {<<>>, SubmodulePath} :
          scan_result' = List(get_author_changes(git_status, git_stdout,
                                                 submodule_path))
    /\ UNCHANGED <<git_status, git_stdout, unreadable,
                   patVars, aggVars, parseVars, restVars>>

InitScan == ScanInit /\ PatIdle /\ ParseIdle /\ RestIdle
NextScan ==
    \/ EmitLine
    \/ AnalyzeRepository
    \/ AnalyzeSubmoduleChanges
    \/ GetAuthorChanges
SpecScan == InitScan /\ [][NextScan]_vars

----------------------------------------------------------------------------
(* AuthorshipAnalyzer.get_author_changes, its loop line by line *)

MaxAuthorLines == 4

\* lines of an author history: author names, bare and quoted, an empty
\* quoted name, change lines in and out of scope, and a blank line
AuthorLineSamples ==
    { <<"A">>,
      <<"'", "B", "'">>,
      <<"'", "'">>,
      <<"7", "\t", "1", "\t", "a", ".", "c", "s">>,
      <<"2", "\t", "0", "\t", "b", ".", "v", "b">>,
      <<"3", "\t", "3", "\t", "c", ".", "j", "s">>,
      <<>> }

AuthorScanInit ==
    /\ au_submodule \in {<<>>, SubmodulePath}
    /\ au_read = <<>>
    /\ au_state = [current_author |-> <<>>, author_changes |-> <<>>]
    /\ au_result = Pending
    /\ unreadable \in { {}, { <<"b", ".", "v", "b">> } }
    /\ git_status = "ok"
    /\ git_stdout = <<>>
    /\ scan = "none"
    /\ scan_result = Pending

\* one pass of 'for line in result.stdout.strip().split(...)': the next
\* line of the output is handled; the output was stripped, so it does not
\* begin with a blank line
ReadAuthorLine ==
    /\ au_result = Pending
    /\ Len(au_read) < MaxAuthorLines
    /\ \E text \in AuthorLineSamples :
          /\ text = <<>> => au_read # <<>>
          /\ au_read' = Append(au_read, text)
          /\ au_state' = AuthorLine(au_state, text, au_submodule)
    /\ UNCHANGED <<au_submodule, au_result, scanVars, patVars, aggVars,
                   parseVars, extractVars, ownVars, runVars>>

\* 'return author_changes' after the last line
ReturnAuthorChanges ==
    /\ au_result = Pending
    /\ au_result' = List(au_state.author_changes)
    /\ UNCHANGED <<au_submodule, au_read, au_state, scanVars, patVars,
                   aggVars, parseVars, extractVars, ownVars, runVars>>

InitAuthorScan ==
    /\ AuthorScanInit /\ PatIdle /\ AggIdle /\ ParseIdle
    /\ ExtractIdle /\ OwnIdle /\ RunIdle
NextAuthorScan ==
    \/ ReadAuthorLine
    \/ ReturnAuthorChanges
SpecAuthorScan == InitAuthorScan /\ [][NextAuthorScan]_vars

----------------------------------------------------------------------------
(* NamespaceParser: the regular expressions are computed character by      *)
(* character on the text.                                                  *)

Str(chars) == [kind |-> "str", chars |-> chars]

\* the characters of '(global)'
GlobalText == <<"(", "g", "l", "o", "b", "a", "l", ")">>

LowerLetters ==
    <<"a", "b", "c", "d", "e", "f", "g", "h", "i", "j", "k", "l", "m",
      "n", "o", "p", "q", "r", "s", "t", "u", "v", "w", "x", "y", "z">>
UpperLetters ==
    <<"A", "B", "C", "D", "E", "F", "G", "H", "I", "J", "K", "L", "M",
      "N", "O", "P", "Q", "R", "S", "T", "U", "V", "W", "X", "Y", "Z">>

\* the characters [\w\.] matches, among those of the model's texts
NameChars ==
    {LowerLetters[i] : i \in 1..26} \cup {UpperLetters[i] : i \in 1..26}
        \cup Digits \cup {"_", "."}

\* case folding of re.IGNORECASE
Fold(c) ==
    IF \E i \in 1..26 : UpperLetters[i] = c
    THEN LowerLetters[CHOOSE i \in 1..26 : UpperLetters[i] = c]
    ELSE c

\* the literal 'namespace' of the three patterns
Keyword == <<"n", "a", "m", "e", "s", "p", "a", "c", "e">>

LineComment == <<"/", "/">>
BlockOpen == <<"/", "*">>
BlockClose == <<"*", "/">>
VbComment == <<"'">>

\* the literal word stands at position i of text
StartsAt(text, word, i) ==
    /\ i + Len(word) - 1 <= Len(text)
    /\ \A k \in 1..Len(word) : text[i + k - 1] = word[k]

\* re.sub(marker + r'.*$', '', text, flags=re.MULTILINE): on every line the
\* first marker and all that follows it up to the end of the line go
RECURSIVE RemoveLineCommentsFrom(_, _, _, _)
RemoveLineCommentsFrom(text, marker, i, inComment) ==
    IF i > Len(text) THEN <<>>
    ELSE IF text[i] = NEWLINE
         THEN <<NEWLINE>> \o RemoveLineCommentsFrom(text, marker, i + 1, FALSE)
    ELSE IF inComment \/ StartsAt(text, marker, i)
         THEN RemoveLineCommentsFrom(text, marker, i + 1, TRUE)
    ELSE <<text[i]>> \o RemoveLineCommentsFrom(text, marker, i + 1, FALSE)

RemoveLineComments(text, marker) ==
    RemoveLineCommentsFrom(text, marker, 1, FALSE)

\* the positions from i on where a '*/' stands
ClosesFrom(text, i) == {j \in i..Len(text) : StartsAt(text, BlockClose, j)}

Min(S) == CHOOSE m \in S : \A n \in S : m <= n

\* re.sub(r'/\*.*?\*/', '', text, flags=re.DOTALL): from left to right, a
\* '/*' with a '*/' after it goes with all up to the nearest such '*/'; a
\* '/*' with no '*/' after it stays
RECURSIVE RemoveBlockCommentsFrom(_, _)
RemoveBlockCommentsFrom(text, i) ==
    IF i > Len(text) THEN <<>>
    ELSE IF StartsAt(text, BlockOpen, i) /\ ClosesFrom(text, i + 2) # {}
         THEN RemoveBlockCommentsFrom(text, Min(ClosesFrom(text, i + 2)) + 2)
    ELSE <<text[i]>> \o RemoveBlockCommentsFrom(text, i + 1)

RemoveBlockComments(text) == RemoveBlockCommentsFrom(text, 1)

\* _remove_comments
remove_comments(text, path) ==
    IF EndsWith(path, DotCs)
    THEN RemoveBlockComments(RemoveLineComments(text, LineComment))
    ELSE IF EndsWith(path, DotVb) THEN RemoveLineComments(text, VbComment)
    ELSE text

\* the first position from i on whose character is not in chars
RECURSIVE SkipChars(_, _, _)
SkipChars(text, i, chars) ==
    IF i <= Len(text) /\ text[i] \in chars
    THEN SkipChars(text, i + 1, chars)
    ELSE i

\* ^\s* with re.MULTILINE reaches position k: a line starts at some p <= k
\* and only whitespace (line ends included) lies between p and k
LineStartReaches(text, k) ==
    \E p \in 1..k :
        /\ p = 1 \/ text[p - 1] = NEWLINE
        /\ \A q \in p..(k - 1) : text[q] \in Whitespace

\* the keyword stands at position k, as written or in any case
KeywordAt(text, k, ignoreCase) ==
    /\ k + Len(Keyword) - 1 <= Len(text)
    /\ \A n \in 1..Len(Keyword) :
          (IF ignoreCase THEN Fold(text[k + n - 1]) ELSE text[k + n - 1])
              = Keyword[n]

\* the match of namespace\s+([\w\.]+)\s*<terminator> with the keyword at
\* position k; terminator "" stands for a pattern that ends with the group.
\* The greedy quantifiers take all the whitespace and the whole name: no
\* shorter choice lets the rest of the pattern match.
DeclarationAt(text, k, terminator, ignoreCase) ==
    LET nameStart == SkipChars(text, k + Len(Keyword), Whitespace)
        nameEnd == SkipChars(text, nameStart, NameChars)
        after == SkipChars(text, nameEnd, Whitespace)
    IN [found |-> /\ KeywordAt(text, k, ignoreCase)
                  /\ LineStartReaches(text, k)
                  /\ nameStart > k + Len(Keyword)
                  /\ nameEnd > nameStart
                  /\ \/ terminator = ""
                     \/ after <= Len(text) /\ text[after] = terminator,
        name |-> SubSeq(text, nameStart, nameEnd - 1)]

\* pattern.search(text): the match that starts first, None when there is none
Search(text, terminator, ignoreCase) ==
    LET hits == {k \in 1..Len(text) :
                    DeclarationAt(text, k, terminator, ignoreCase).found}
    IN IF hits = {} THEN None
       ELSE Str(DeclarationAt(text, Min(hits), terminator, ignoreCase).name)

\* CSHARP_FILE_SCOPED.search, CSHARP_TRADITIONAL.search, VBNET_NAMESPACE.search
SearchFileScoped(text) == Search(text, ";", FALSE)
SearchTraditional(text) == Search(text, "{", FALSE)
SearchVbnet(text) == Search(text, "", TRUE)

\* the extraction that returns the declaration standing first in the text,
\* whichever its form
extract_csharp_namespace_LexicallyFirst(text) ==
    LET hits == {k \in 1..Len(text) :
                    \/ DeclarationAt(text, k, ";", FALSE).found
                    \/ DeclarationAt(text, k, "{", FALSE).found}
    IN IF hits = {} THEN Str(GlobalText)
       ELSE Str(DeclarationAt(text, Min(hits), "", FALSE).name)

\* _extract_csharp_namespace
extract_csharp_namespace(text) ==
    IF SearchFileScoped(text) # None THEN SearchFileScoped(text)
    ELSE IF SearchTraditional(text) # None THEN SearchTraditional(text)
    ELSE Str(GlobalText)

\* _extract_vbnet_namespace
extract_vbnet_namespace(text) ==
    IF SearchVbnet(text) # None THEN SearchVbnet(text) ELSE Str(GlobalText)

\* extract_namespace
extract_namespace(text, path) ==
    IF Strip(text) = <<>> THEN Str(GlobalText)
    ELSE LET stripped == remove_comments(text, path) IN
         IF EndsWith(path, DotCs) THEN extract_csharp_namespace(stripped)
         ELSE IF EndsWith(path, DotVb) THEN extract_vbnet_namespace(stripped)
         ELSE Str(GlobalText)

----------------------------------------------------------------------------
(* Specification of the extractor: the content of a file is written piece  *)
(* by piece, then extract_namespace is called with it and a file name.     *)

\* the pieces of source text a file of the model is made of
TextPieces ==
    { Keyword \o <<" ", "A", " ", "{", "\n">>,
      Keyword \o <<" ", "B", ";", "\n">>,
      Keyword \o <<" ", "C", ".", "D", "\n", "{", "\n">>,
      <<"N", "a", "m", "e", "s", "p", "a", "c", "e", " ", "V", "\n">>,
      <<"/", "/", " ">>,
      <<"/", "*", "\n">>,
      <<"*", "/", "\n">>,
      <<"'", " ">>,
      <<" ", " ">>,
      <<"u", "s", "i", "n", "g", " ", "S", ";", "\n">> }

\* the file names extract_namespace is called with
FilepathSamples ==
    { <<"a", ".", "c", "s">>, <<"b", ".", "v", "b">>,
      <<"c", ".", "t", "x", "t">> }

ExtractInit ==
    /\ ns_content = <<>>
    /\ ns_pieces = 0
    /\ ns_filepath = <<>>
    /\ ns_result = Pending

\* one more piece of text is written to the file
WriteText ==
    /\ ns_result = Pending
    /\ ns_pieces < MaxPieces
    /\ \E piece \in TextPieces : ns_content' = ns_content \o piece
    /\ ns_pieces' = ns_pieces + 1
    /\ UNCHANGED <<ns_filepath, ns_result, ownVars, runVars, authorVars,
                   patVars, aggVars, parseVars, scanVars>>

\* the call of extract_namespace
ExtractNamespace ==
    /\ ns_result = Pending
    /\ \E path \in FilepathSamples :
          /\ ns_filepath' = path
          /\ ns_result' = extract_namespace(ns_content, path)
    /\ UNCHANGED <<ns_content, ns_pieces, ownVars, runVars, authorVars,
                   patVars, aggVars, parseVars, scanVars>>

InitExtract ==
    /\ ExtractInit
    /\ OwnIdle /\ RunIdle /\ AuthorIdle /\ PatIdle /\ AggIdle /\ ParseIdle /\ ScanIdle
NextExtract ==
    \/ WriteText
    \/ ExtractNamespace
SpecExtract == InitExtract /\ [][NextExtract]_vars

----------------------------------------------------------------------------
(* float: an IEEE 754 double is a mantissa of MantissaBits bits, first bit *)
(* 1, written as a sequence of bits from the highest to the lowest, and an *)
(* exponent; its value is mantissa * 2^exponent.  Every operation rounds   *)
(* its exact result to the nearest double, ties to the even mantissa.      *)

MantissaBits == 53
PercentScale == 100

\* the int 0 of 'else 0'
Zero == [mant |-> <<>>, exp |-> 0]

\* a sequence of n zero bits
Zeros(n) == [i \in 1..n |-> 0]

\* the bits of a natural number, none for 0
RECURSIVE BitsOf(_)
BitsOf(n) == IF n = 0 THEN <<>> ELSE Append(BitsOf(n \div 2), n % 2)

\* bits + 1, one bit longer when all bits are 1
RECURSIVE Increment(_)
Increment(bits) ==
    IF bits = <<>> THEN <<1>>
    ELSE IF bits[Len(bits)] = 0
         THEN SubSeq(bits, 1, Len(bits) - 1) \o <<1>>
    ELSE Increment(SubSeq(bits, 1, Len(bits) - 1)) \o <<0>>

\* the arithmetic on the bit sequences goes by groups of ChunkBits bits
ChunkBits == 9

\* the n lowest bits of a natural number
FixedBits(v, n) == [k \in 1..n |-> (v \div 2 ^ (n - k)) % 2]

\* the natural number written by a group of bits
RECURSIVE ValueOf(_)
ValueOf(bits) ==
    IF bits = <<>> THEN 0
    ELSE 2 * ValueOf(SubSeq(bits, 1, Len(bits) - 1)) + bits[Len(bits)]

\* the product of a bit sequence and a small natural number, from the
\* lowest group of bits to the highest; i is the last bit not yet multiplied
RECURSIVE TimesFrom(_, _, _, _)
TimesFrom(bits, n, i, carry) ==
    IF i = 0 THEN BitsOf(carry)
    ELSE LET low == IF i > ChunkBits THEN i - ChunkBits + 1 ELSE 1
             v == ValueOf(SubSeq(bits, low, i)) * n + carry
         IN TimesFrom(bits, n, low - 1, v \div 2 ^ (i - low + 1))
                \o FixedBits(v, i - low + 1)

Times(bits, n) == TimesFrom(bits, n, Len(bits), 0)

\* rounding to the nearest double of the number bits * 2^exp + a fraction
\* of its last place, where bits starts with 1 and has at least
\* MantissaBits bits and rest tells whether the fraction is not 0
RoundToDouble(bits, exp, rest) ==
    LET extra == Len(bits) - MantissaBits
        kept == SubSeq(bits, 1, MantissaBits)
        half == extra > 0 /\ bits[MantissaBits + 1] = 1
        more == \/ rest
                \/ \E i \in (MantissaBits + 2)..Len(bits) : bits[i] = 1
        up == IF extra = 0 THEN FALSE
              ELSE half /\ (more \/ kept[MantissaBits] = 1)
        rounded == IF up THEN Increment(kept) ELSE kept
    IN IF Len(rounded) > MantissaBits
       THEN [mant |-> SubSeq(rounded, 1, MantissaBits), exp |-> exp + extra + 1]
       ELSE [mant |-> rounded, exp |-> exp + extra]

\* float(n) for an int n > 0 of at most MantissaBits bits
FloatOfInt(n) ==
    [mant |-> BitsOf(n) \o Zeros(MantissaBits - Len(BitsOf(n))),
     exp |-> Len(BitsOf(n)) - MantissaBits]

\* num and den scaled by powers of two until den <= num < 2 * den
RECURSIVE Normalise(_, _, _)
Normalise(num, den, exp) ==
    IF num < den THEN Normalise(2 * num, den, exp - 1)
    ELSE IF num >= 2 * den THEN Normalise(num, 2 * den, exp + 1)
    ELSE [num |-> num, den |-> den, exp |-> exp]

\* the next n bits of the quotient by den, by long division from the
\* remainder rem < den, a group of bits at a time
RECURSIVE QuotientBits(_, _, _, _)
QuotientBits(rem, den, n, bits) ==
    IF n = 0 THEN [bits |-> bits, rem |-> rem]
    ELSE LET c == IF n < ChunkBits THEN n ELSE ChunkBits
             scaled == rem * 2 ^ c
         IN QuotientBits(scaled % den, den, n - c,
                         bits \o FixedBits(scaled \div den, c))

\* num / den for ints num > 0 and den > 0
TrueDivide(num, den) ==
    LET s == Normalise(num, den, 0)
        q == QuotientBits(s.num - s.den, s.den, MantissaBits, <<1>>)
    IN RoundToDouble(q.bits, s.exp - MantissaBits, q.rem # 0)

\* x * n for a float x > 0 and an int n > 0
FloatTimes(x, n) == RoundToDouble(Times(x.mant, n), x.exp, FALSE)

----------------------------------------------------------------------------
(* AuthorshipAnalyzer.calculate_ownership *)

\* position of the entry of dict whose field has the value key, 0 for none
RECURSIVE FieldIndexFrom(_, _, _, _)
FieldIndexFrom(dict, field, key, i) ==
    IF i > Len(dict) THEN 0
    ELSE IF dict[i][field] = key THEN i
    ELSE FieldIndexFrom(dict, field, key, i + 1)

FieldIndex(dict, field, key) == FieldIndexFrom(dict, field, key, 1)

\* the loop body with an assignment in the place of '+='
AddLines_Overwrite(namespace_authors, author, change) ==
    LET withNamespace ==
            IF FieldIndex(namespace_authors, "namespace", change.namespace) = 0
            THEN Append(namespace_authors,
                        [namespace |-> change.namespace, authors |-> <<>>])
            ELSE namespace_authors
        n == FieldIndex(withNamespace, "namespace", change.namespace)
        authors == withNamespace[n].authors
        withAuthor ==
            IF FieldIndex(authors, "author", author) = 0
            THEN Append(authors, [author |-> author, lines |-> 0])
            ELSE authors
        a == FieldIndex(withAuthor, "author", author)
    IN [withNamespace EXCEPT ![n].authors =
            [withAuthor EXCEPT ![a].lines = change.lines]]

\* the body of the loop over the changes of an author:
\* namespace_authors[namespace][author] += lines, the two keys created at
\* their first use
AddLines(namespace_authors, author, change) ==
    LET withNamespace ==
            IF FieldIndex(namespace_authors, "namespace", change.namespace) = 0
            THEN Append(namespace_authors,
                        [namespace |-> change.namespace, authors |-> <<>>])
            ELSE namespace_authors
        n == FieldIndex(withNamespace, "namespace", change.namespace)
        authors == withNamespace[n].authors
        withAuthor ==
            IF FieldIndex(authors, "author", author) = 0
            THEN Append(authors, [author |-> author, lines |-> 0])
            ELSE authors
        a == FieldIndex(withAuthor, "author", author)
    IN [withNamespace EXCEPT ![n].authors =
            [withAuthor EXCEPT ![a].lines = @ + change.lines]]

RECURSIVE AddAuthorLines(_, _, _)
AddAuthorLines(namespace_authors, author, changes) ==
    IF changes = <<>> THEN namespace_authors
    ELSE AddAuthorLines(AddLines(namespace_authors, author, Head(changes)),
                        author, Tail(changes))

\* the loop over author_changes.items()
RECURSIVE NamespaceAuthors(_, _)
NamespaceAuthors(changes_by_author, namespace_authors) ==
    IF changes_by_author = <<>> THEN namespace_authors
    ELSE NamespaceAuthors(Tail(changes_by_author),
                          AddAuthorLines(namespace_authors,
                                         Head(changes_by_author).author,
                                         Head(changes_by_author).changes))

\* sum(authors.values())
RECURSIVE SumLines(_)
SumLines(authors) ==
    IF authors = <<>> THEN 0
    ELSE Head(authors).lines + SumLines(Tail(authors))

\* the maximum that keeps the last of the largest entries
MaxByLines_Last(authors) ==
    authors[CHOOSE i \in 1..Len(authors) :
                /\ \A j \in 1..Len(authors) : authors[j].lines <= authors[i].lines
                /\ \A j \in (i + 1)..Len(authors) :
                       authors[j].lines < authors[i].lines]

\* max(authors.items(), key=lambda x: x[1]): the first of the largest
\* entries in the order of the dict
MaxByLines(authors) ==
    authors[CHOOSE i \in 1..Len(authors) :
                /\ \A j \in 1..Len(authors) : authors[j].lines <= authors[i].lines
                /\ \A j \in 1..(i - 1) : authors[j].lines < authors[i].lines]

\* the quotient that is not multiplied by 100
OwnershipPercent_Unscaled(primary_lines, total_lines) ==
    IF total_lines > 0 THEN TrueDivide(primary_lines, total_lines) ELSE Zero

\* (primary_author[1] / total_lines * 100) if total_lines > 0 else 0
OwnershipPercent(primary_lines, total_lines) ==
    IF total_lines > 0
    THEN FloatTimes(TrueDivide(primary_lines, total_lines), PercentScale)
    ELSE Zero

\* the body of the loop over namespace_authors.items()
OwnershipEntry(entry) ==
    LET total_lines == SumLines(entry.authors)
        primary_author == MaxByLines(entry.authors)
    IN [namespace |-> entry.namespace,
        primary_author |-> primary_author.author,
        primary_lines |-> primary_author.lines,
        total_lines |-> total_lines,
        ownership_percent |-> OwnershipPercent(primary_author.lines,
                                               total_lines),
        all_authors |-> entry.authors]

calculate_ownership(changes_by_author) ==
    LET namespace_authors == NamespaceAuthors(changes_by_author, <<>>)
    IN [n \in 1..Len(namespace_authors) |->
            OwnershipEntry(namespace_authors[n])]

----------------------------------------------------------------------------
(* Specification of the ownership calculation: author_changes is filled as *)
(* get_author_changes fills it, an author at the first sight of the name   *)
(* and a change under the author it belongs to, then calculate_ownership   *)
(* is called with it.                                                      *)

AuthorSamples == {<<"A">>, <<"B">>, <<"C">>}

\* added + deleted of a history line; a negative count comes from a signed
\* field of the line
LinesSamples == {0 - 1, 0, 1, 2}

RECURSIVE Observations(_)
Observations(changes_by_author) ==
    IF changes_by_author = <<>> THEN 0
    ELSE Len(Head(changes_by_author).changes)
             + Observations(Tail(changes_by_author))

OwnInit ==
    /\ own_changes = <<>>
    /\ own_result = Pending

\* an author line of the history: author_changes[author] = [] at the first
\* sight of the name
SeeAuthor ==
    /\ own_result = Pending
    /\ \E author \in AuthorSamples :
          /\ AuthorIndex(own_changes, author) = 0
          /\ own_changes' = Append(own_changes,
                                   [author |-> author, changes |-> <<>>])
    /\ UNCHANGED <<own_result, extractVars, runVars, authorVars,
                   patVars, aggVars, parseVars, scanVars>>

\* a change line of the history under one of the authors seen:
\* author_changes[author].append((namespace, filepath, lines))
SeeChange ==
    /\ own_result = Pending
    /\ Observations(own_changes) < MaxObservations
    /\ \E k \in 1..Len(own_changes), namespace \in Namespaces,
          lines \in LinesSamples :
          own_changes' =
              [own_changes EXCEPT ![k].changes =
                  Append(@, [namespace |-> namespace,
                             path |-> <<"a", ".", "c", "s">>,
                             lines |-> lines])]
    /\ UNCHANGED <<own_result, extractVars, runVars, authorVars,
                   patVars, aggVars, parseVars, scanVars>>

\* the call of calculate_ownership
CalculateOwnership ==
    /\ own_result = Pending
    /\ own_result' = List(calculate_ownership(own_changes))
    /\ UNCHANGED <<own_changes, extractVars, runVars, authorVars,
                   patVars, aggVars, parseVars, scanVars>>

InitOwnership ==
    /\ OwnInit
    /\ ExtractIdle /\ RunIdle /\ AuthorIdle /\ PatIdle /\ AggIdle /\ ParseIdle /\ ScanIdle
NextOwnership ==
    \/ SeeAuthor
    \/ SeeChange
    \/ CalculateOwnership
SpecOwnership == InitOwnership /\ [][NextOwnership]_vars

----------------------------------------------------------------------------
(* NamespaceChurnAnalyzer.analyze and main: the orchestrator.  Every       *)
(* external command, query of the file system and open() is a step whose   *)
(* answer the environment chooses; the commands are logged in run_calls    *)
(* and the opened paths in run_opened.                                     *)

VALID_PERIODS == <<"1 month", "3 months", "1 year">>

\* a check that accepts every period
is_valid_period_Any(period) == TRUE

\* period in self.VALID_PERIODS
is_valid_period(period) ==
    \E i \in 1..Len(VALID_PERIODS) : VALID_PERIODS[i] = period

\* the choices of --period
PeriodChoices == {"1 month", "3 months", "1 year"}

\* the choices of --format
FormatChoices == {"console", "csv"}

\* what analyze returns
Returned(text) == [kind |-> "returned", text |-> text]

\* "No .NET code changes found in the specified period."
NoChangesMessage == [kind |-> "message", message |-> "no_changes"]

\* f"No namespaces with >={min_threshold} lines changed in the specified
\* period."
BelowThresholdMessage(threshold) ==
    [kind |-> "message", message |-> "below_threshold",
     threshold |-> threshold]

\* the text a formatter makes of sorted_data: the name of the formatter, the
\* rows it is given in their order and its show_details argument; ownership
\* holds what format_ownership_report appends, <<>> for nothing
Report(formatter, sorted_data, details) ==
    [kind |-> "report", formatter |-> formatter, rows |-> sorted_data,
     show_details |-> details, csv |-> <<>>, ownership |-> <<>>]

\* one external command or query: the unit it addresses (<<>> is the main
\* tree), how it ends and what it prints
Call(name, unit, status, stdout) ==
    [call |-> name, unit |-> unit, status |-> status, stdout |-> stdout]

\* SubmoduleDetector.get_submodules: gitmodules tells whether the file
\* .gitmodules is absent, the config query fails or it lists the paths
get_submodules(gitmodules, paths) ==
    IF gitmodules = "absent" THEN <<>>
    ELSE IF gitmodules = "failed" THEN <<>>
    ELSE paths

\* the queries get_submodules makes
SubmoduleQueries(gitmodules) ==
    IF gitmodules = "absent"
    THEN <<Call("exists", <<>>, "absent", <<>>)>>
    ELSE <<Call("exists", <<>>, "ok", <<>>),
           Call("config", <<>>,
                IF gitmodules = "failed" THEN "failed" ELSE "ok", <<>>)>>

\* the queries and commands analyze_submodule makes for one sub-repository:
\* os.path.isdir, git rev-parse, git log
SubmoduleCalls_Retries(submodule_path, status, stdout) ==
    IF status = "no_directory"
    THEN <<Call("isdir", submodule_path, "no_directory", <<>>)>>
    ELSE <<Call("isdir", submodule_path, "ok", <<>>)>>
         \o IF status = "not_a_repository"
            THEN <<Call("rev-parse", submodule_path, "not_a_repository",
                        <<>>)>>
            ELSE <<Call("rev-parse", submodule_path, "ok", <<>>),
                   Call("log", submodule_path, status, stdout)>>
                 \o (IF status = "failed"
                     THEN <<Call("log", submodule_path, status, stdout)>>
                     ELSE <<>>)

SubmoduleCalls(submodule_path, status, stdout) ==
    IF status = "no_directory"
    THEN <<Call("isdir", submodule_path, "no_directory", <<>>)>>
    ELSE <<Call("isdir", submodule_path, "ok", <<>>)>>
         \o IF status = "not_a_repository"
            THEN <<Call("rev-parse", submodule_path, "not_a_repository",
                        <<>>)>>
            ELSE <<Call("rev-parse", submodule_path, "ok", <<>>),
                   Call("log", submodule_path, status, stdout)>>

\* the paths of the change tuples of a scan: each tuple comes with one
\* open() of its path
TuplePaths(changes) == {changes[i].path : i \in 1..Len(changes)}

\* one open() of a path, failing or not
OpenCall(path) ==
    Call("open", path, IF path \in unreadable THEN "unreadable" ELSE "ok",
         <<>>)

\* the open() calls of a scan of change tuples, in the order of the tuples
OpenCalls(changes) == [i \in 1..Len(changes) |-> OpenCall(changes[i].path)]

\* sorted(filtered.items(), key=..., reverse=True) and sort_by_churn
sort_by_churn(dict) == SortDesc(dict, "lines_changed")
sort_by_total(dict) == SortDesc(dict, "total")

\* the formatter analyze chooses
\* the lines of a tabular export: the header line and one line for every
\* item of the data, each line as the values joined by ','
Csv(header, data_lines) == [header |-> header, lines |-> data_lines]

format_csv_SkipsLast(sorted_data) ==
    Csv(<<"namespace", "lines_changed", "file_count">>,
        [i \in 1..(Len(sorted_data) - 1) |->
            <<sorted_data[i].namespace, sorted_data[i].lines_changed,
              sorted_data[i].file_count>>])

\* ConsoleFormatter.format_csv
format_csv(sorted_data) ==
    Csv(<<"namespace", "lines_changed", "file_count">>,
        [i \in 1..Len(sorted_data) |->
            LET metrics == sorted_data[i]
                total == IF "lines_changed" \in DOMAIN metrics
                         THEN metrics.lines_changed
                         ELSE IF "total" \in DOMAIN metrics
                              THEN metrics.total ELSE 0
            IN <<metrics.namespace, total, metrics.file_count>>])

\* ConsoleFormatter.format_csv_enhanced
format_csv_enhanced(sorted_data) ==
    Csv(<<"namespace", "added", "deleted", "total", "files", "pattern">>,
        [i \in 1..Len(sorted_data) |->
            LET metrics == sorted_data[i]
            IN <<metrics.namespace, metrics.additions, metrics.deletions,
                 metrics.total, metrics.file_count,
                 IF "pattern" \in DOMAIN metrics THEN metrics.pattern
                 ELSE "normal">>])

FormatOutput(isEnhanced, output_format, show_details, dict) ==
    IF isEnhanced
    THEN IF output_format = "csv"
         THEN [Report("format_csv_enhanced", sort_by_total(dict), FALSE)
                  EXCEPT !.csv = format_csv_enhanced(sort_by_total(dict))]
         ELSE Report("format_enhanced_console", sort_by_total(dict),
                     show_details)
    ELSE IF output_format = "csv"
         THEN [Report("format_csv", sort_by_churn(dict), FALSE)
                  EXCEPT !.csv = format_csv(sort_by_churn(dict))]
    ELSE IF show_details
         THEN Report("format_detailed_console", sort_by_churn(dict), TRUE)
    ELSE Report("format_console", sort_by_churn(dict), FALSE)

\* all_author_changes[author].extend(changes) for the authors of one unit
RECURSIVE MergeAuthorChanges(_, _)
MergeAuthorChanges(all_author_changes, unit_changes) ==
    IF unit_changes = <<>> THEN all_author_changes
    ELSE LET e == Head(unit_changes)
             dict == IF AuthorIndex(all_author_changes, e.author) = 0
                     THEN Append(all_author_changes,
                                 [author |-> e.author, changes |-> <<>>])
                     ELSE all_author_changes
             k == AuthorIndex(dict, e.author)
         IN MergeAuthorChanges(
                [dict EXCEPT ![k].changes = @ \o e.changes],
                Tail(unit_changes))

\* the units of the author scan: the main tree, then the sub-repositories
AuthorUnits_SubmodulesFirst(submodules) == submodules \o <<(<<>>)>>

AuthorUnits(submodules) == <<(<<>>)>> \o submodules

\* the merged author changes of the units from position i on, answers[i]
\* being the answer of the author history command of unit i
RECURSIVE AllAuthorChanges(_, _, _, _)
AllAuthorChanges(units, answers, i, all_author_changes) ==
    IF i > Len(units) THEN all_author_changes
    ELSE AllAuthorChanges(units, answers, i + 1,
             MergeAuthorChanges(all_author_changes,
                 get_author_changes(answers[i].status, answers[i].stdout,
                                    units[i])))

\* the open() calls of one author scan, in the order of the lines: a
\* change line of a file in scope that follows an author line has its
\* file opened
RECURSIVE AuthorOpens(_, _, _)
AuthorOpens(lines, current_author, submodule_path) ==
    IF lines = <<>> THEN <<>>
    ELSE LET text == Head(lines) IN
         IF Strip(text) = <<>>
         THEN AuthorOpens(Tail(lines), current_author, submodule_path)
         ELSE IF ~Contains(text, TAB)
         THEN AuthorOpens(Tail(lines), StripChars(Strip(text), {"'"}),
                          submodule_path)
         ELSE LET p == IF current_author = <<>> THEN None
                       ELSE parse_numstat_line(text)
              IN (IF p # None /\ is_dotnet_file(p.filepath)
                  THEN <<OpenCall(IF submodule_path # <<>>
                                  THEN PathJoin(submodule_path, p.filepath)
                                  ELSE p.filepath)>>
                  ELSE <<>>)
                 \o AuthorOpens(Tail(lines), current_author, submodule_path)

\* the author history command of each unit from position i on, each
\* followed by the open() calls of its scan
RECURSIVE AuthorCalls(_, _, _)
AuthorCalls(units, answers, i) ==
    IF i > Len(units) THEN <<>>
    ELSE <<Call("author_log", units[i], answers[i].status,
                answers[i].stdout)>>
         \o (IF answers[i].status = "ok"
             THEN AuthorOpens(OutputLines(answers[i].stdout), <<>>, units[i])
             ELSE <<>>)
         \o AuthorCalls(units, answers, i + 1)

\* the paths the author scans open
AuthorPaths(calls) ==
    {calls[i].unit : i \in {j \in 1..Len(calls) : calls[j].call = "open"}}

\* the block after the formatters: the ownership report appended to output
AppendOwnershipReport(output, all_author_changes) ==
    IF all_author_changes = <<>> THEN output
    ELSE LET ownership == calculate_ownership(all_author_changes) IN
         IF ownership = <<>> THEN output
         ELSE [output EXCEPT !.ownership = ownership]

----------------------------------------------------------------------------
(* Specification of a run: analyze is called directly or by main, and      *)
(* goes through its steps; phase is its position.                          *)

PeriodSamples == {"1 month", "1 year", "2 weeks"}
RunThresholds == {3, 9}
ParentStatuses == {"ok", "not_a_repository", "failed"}

\* the lists of sub-repositories .gitmodules can name
SubmoduleLists == { <<>>, <<SubmodulePath>>, <<SubmodulePath, <<"t">>>> }

\* the sets of paths open() fails on
RunUnreadableSets ==
    { {}, { <<"a", ".", "c", "s">>, <<"s", "/", "a", ".", "c", "s">> } }

\* what a history command prints
StdoutSamples ==
    { <<>>,
      <<"7", "\t", "1", "\t", "a", ".", "c", "s", "\n">>,
      <<"7", "\t", "1", "\t", "a", ".", "c", "s", "\n",
        "2", "\t", "0", "\t", "b", ".", "v", "b", "\n",
        "-", "\t", "-", "\t", "d", ".", "c", "s", "\n">> }

\* what an author history command prints
AuthorStdoutSamples ==
    { <<"A", "\n", "7", "\t", "1", "\t", "a", ".", "c", "s", "\n">>,
      <<"'", "B", "'", "\n", "2", "\t", "0", "\t", "a", ".", "c", "s", "\n",
        "\n", "A", "\n", "1", "\t", "1", "\t", "b", ".", "v", "b", "\n">> }

\* the answers of a history command: it prints nothing when it fails
Answers(statuses, outputs) ==
    [status : {"ok"}, stdout : outputs]
        \cup [status : statuses \ {"ok"}, stdout : {<<>>}]

\* the variables a run leaves alone, and the arguments it only reads
idleVars == <<patVars, parseVars, extractVars, ownVars, authorVars,
              git_status, git_stdout, scan, scan_result>>
runArgs == <<run_entry, run_period, run_format, enhanced, min_threshold,
             unreadable>>

RunInit ==
    /\ run_entry \in {"main", "analyze"}
    /\ run_period \in PeriodSamples
    /\ run_format \in FormatChoices
    /\ run_details \in BOOLEAN
    /\ enhanced \in BOOLEAN
    /\ min_threshold \in RunThresholds
    /\ unreadable \in RunUnreadableSets
    /\ phase = IF run_entry = "main" THEN "main" ELSE "validate"
    /\ all_changes = <<>>
    /\ aggregated = <<>>
    /\ filtered = <<>>
    /\ git_status = "ok"
    /\ git_stdout = <<>>
    /\ scan = "none"
    /\ scan_result = Pending
    /\ run_submodules = Pending
    /\ run_next = 0
    /\ run_calls = <<>>
    /\ run_opened = {}
    /\ run_output = Pending
    /\ run_result = Pending
    /\ exit_code = 0 - 1
    /\ printed = Pending

\* main up to the call of analyze: parse_args ends the process with status
\* 2 for a period that is not one of the choices; enhanced mode is always
\* detailed
ParseArgs ==
    /\ phase = "main"
    /\ IF run_period \in PeriodChoices
       THEN /\ run_details' = (enhanced \/ run_details)
            /\ phase' = "validate"
            /\ UNCHANGED <<exit_code, printed>>
       ELSE /\ exit_code' = 2
            /\ printed' = [stream |-> "stderr", text |-> "usage"]
            /\ phase' = "exited"
            /\ UNCHANGED run_details
    /\ UNCHANGED <<runArgs, run_submodules, run_next, run_calls, run_opened,
                   run_output, run_result, all_changes, aggregated, filtered,
                   idleVars>>

\* analyze, its first statement: the period is checked
ValidatePeriod ==
    /\ phase = "validate"
    /\ IF is_valid_period(run_period)
       THEN /\ phase' = "parent"
            /\ UNCHANGED run_result
       ELSE /\ run_result' = Raised("ValueError")
            /\ phase' = "raised"
    /\ UNCHANGED <<runArgs, run_details, run_submodules, run_next, run_calls,
                   run_opened, run_output, exit_code, printed,
                   all_changes, aggregated, filtered, idleVars>>

\* analyze: parent_changes = self._analyze_repository(period, ...) and
\* all_changes.extend(parent_changes)
AnalyzeParent ==
    /\ phase = "parent"
    /\ \E answer \in Answers(ParentStatuses, StdoutSamples) :
          LET r == analyze_repository(answer.status, answer.stdout, <<>>,
                                      enhanced)
          IN /\ run_calls' = Append(run_calls,
                                    Call("log", <<>>, answer.status,
                                         answer.stdout))
                                 \o (IF r.kind = "raised" THEN <<>>
                                     ELSE OpenCalls(r.items))
             /\ IF r.kind = "raised"
                THEN /\ run_result' = r
                     /\ phase' = "raised"
                     /\ UNCHANGED <<all_changes, run_opened>>
                ELSE /\ all_changes' = all_changes \o r.items
                     /\ run_opened' = run_opened \cup TuplePaths(r.items)
                     /\ phase' = "discover"
                     /\ UNCHANGED run_result
    /\ UNCHANGED <<runArgs, run_details, run_submodules, run_next,
                   run_output, exit_code, printed, aggregated, filtered,
                   idleVars>>

\* analyze: submodules = self.submodule_detector.get_submodules()
GetSubmodules ==
    /\ phase = "discover"
    /\ \E gitmodules \in {"absent", "failed", "listed"},
          paths \in SubmoduleLists :
          /\ gitmodules # "listed" => paths = <<>>
          /\ run_submodules' = List(get_submodules(gitmodules, paths))
          /\ run_calls' = run_calls \o SubmoduleQueries(gitmodules)
    /\ run_next' = 1
    /\ phase' = "submodules"
    /\ UNCHANGED <<runArgs, run_details, run_opened, run_output, run_result,
                   exit_code, printed, all_changes, aggregated, filtered,
                   idleVars>>

\* analyze, one turn of the loop over submodules:
\* all_changes.extend(self._analyze_submodule_changes(submodule, ...))
AnalyzeSubmodule ==
    /\ phase = "submodules"
    /\ run_next <= Len(run_submodules.items)
    /\ \E answer \in Answers(GitStatuses, StdoutSamples) :
          LET submodule == run_submodules.items[run_next]
              changes == analyze_submodule_changes(answer.status,
                             answer.stdout, submodule, enhanced)
          IN /\ run_calls' = run_calls
                    \o SubmoduleCalls(submodule, answer.status, answer.stdout)
                    \o OpenCalls(changes)
             /\ all_changes' = all_changes \o changes
             /\ run_opened' = run_opened \cup TuplePaths(changes)
    /\ run_next' = run_next + 1
    /\ UNCHANGED <<runArgs, run_details, run_submodules, run_output,
                   run_result, exit_code, printed, aggregated, filtered,
                   phase, idleVars>>

IsEmpty_Never(collection) == collection # collection

\* 'not all_changes', 'not filtered': a list or dict without items
IsEmpty(collection) == collection = <<>>

\* analyze after the loop: 'if not all_changes: return ...'
CheckChanges ==
    /\ phase = "submodules"
    /\ run_next > Len(run_submodules.items)
    /\ IF IsEmpty(all_changes)
       THEN /\ run_result' = Returned(NoChangesMessage)
            /\ phase' = "returned"
       ELSE /\ phase' = "aggregate"
            /\ UNCHANGED run_result
    /\ UNCHANGED <<runArgs, run_details, run_submodules, run_next, run_calls,
                   run_opened, run_output, exit_code, printed,
                   all_changes, aggregated, filtered, idleVars>>

\* analyze: aggregated = aggregate_with_details(all_changes) in enhanced
\* mode, aggregate(all_changes) otherwise
AggregateChanges ==
    /\ phase = "aggregate"
    /\ aggregated' = IF enhanced THEN aggregate_with_details(all_changes)
                     ELSE aggregate(all_changes)
    /\ phase' = "filter"
    /\ UNCHANGED <<runArgs, run_details, run_submodules, run_next, run_calls,
                   run_opened, run_output, run_result, exit_code, printed,
                   all_changes, filtered, idleVars>>

\* analyze: filtered = ..., and 'if not filtered: return ...'
FilterAggregated ==
    /\ phase = "filter"
    /\ filtered' = IF enhanced THEN filter_enhanced(aggregated, min_threshold)
                   ELSE filter_by_threshold(aggregated, min_threshold)
    /\ IF IsEmpty(filtered')
       THEN /\ run_result' = Returned(BelowThresholdMessage(min_threshold))
            /\ phase' = "returned"
       ELSE /\ phase' = "format"
            /\ UNCHANGED run_result
    /\ UNCHANGED <<runArgs, run_details, run_submodules, run_next, run_calls,
                   run_opened, run_output, exit_code, printed,
                   all_changes, aggregated, idleVars>>

WithOwnership_AnyConsole(output_format, isEnhanced) ==
    output_format = "console"

\* analyze: 'if output_format == 'console' and not enhanced:'
WithOwnership(output_format, isEnhanced) ==
    output_format = "console" /\ ~isEnhanced

\* analyze: sorted_data = ..., output = <formatter>(sorted_data); the
\* output is returned unless the ownership block applies
FormatReport ==
    /\ phase = "format"
    /\ run_output' = FormatOutput(enhanced, run_format, run_details, filtered)
    /\ IF WithOwnership(run_format, enhanced)
       THEN /\ phase' = "ownership"
            /\ UNCHANGED run_result
       ELSE /\ run_result' = Returned(run_output')
            /\ phase' = "returned"
    /\ UNCHANGED <<runArgs, run_details, run_submodules, run_next, run_calls,
                   run_opened, exit_code, printed,
                   all_changes, aggregated, filtered, idleVars>>

\* analyze, the ownership block: the author history of the main tree and of
\* every sub-repository is read, the ownership report is appended, and the
\* output is returned
AppendOwnership ==
    /\ phase = "ownership"
    /\ LET units == AuthorUnits(run_submodules.items) IN
       \E answers \in [1..Len(units) ->
                          Answers({"ok", "failed"}, AuthorStdoutSamples)] :
          LET calls == AuthorCalls(units, answers, 1) IN
          /\ run_calls' = run_calls \o calls
          /\ run_opened' = run_opened \cup AuthorPaths(calls)
          /\ run_output' = AppendOwnershipReport(run_output,
                               AllAuthorChanges(units, answers, 1, <<>>))
    /\ run_result' = Returned(run_output')
    /\ phase' = "returned"
    /\ UNCHANGED <<runArgs, run_details, run_submodules, run_next,
                   exit_code, printed, all_changes, aggregated, filtered,
                   idleVars>>

ExitStatus_Inverted(result) == IF result.kind = "returned" THEN 1 ELSE 0

\* main: 'return 0' after the output is printed, 'return 1' in the handler
\* of 'except Exception'
ExitStatus(result) == IF result.kind = "returned" THEN 0 ELSE 1

\* main after analyze: the output is printed and 0 returned, or the
\* exception is printed on stderr and 1 returned
MainReturn ==
    /\ run_entry = "main"
    /\ phase \in {"returned", "raised"}
    /\ IF run_result.kind = "returned"
       THEN printed' = [stream |-> "stdout", text |-> run_result.text]
       ELSE printed' = [stream |-> "stderr", text |-> run_result.exception]
    /\ exit_code' = ExitStatus(run_result)
    /\ phase' = "exited"
    /\ UNCHANGED <<runArgs, run_details, run_submodules, run_next, run_calls,
                   run_opened, run_output, run_result,
                   all_changes, aggregated, filtered, idleVars>>

InitAnalyze ==
    RunInit /\ PatIdle /\ ParseIdle /\ ExtractIdle /\ OwnIdle /\ AuthorIdle
NextAnalyze ==
    \/ ParseArgs
    \/ ValidatePeriod
    \/ AnalyzeParent
    \/ GetSubmodules
    \/ AnalyzeSubmodule
    \/ CheckChanges
    \/ AggregateChanges
    \/ FilterAggregated
    \/ FormatReport
    \/ AppendOwnership
    \/ MainReturn
SpecAnalyze == InitAnalyze /\ [][NextAnalyze]_vars

----------------------------------------------------------------------------
(* Properties of the aggregation result *)

AggregationDone == phase \in {"aggregated", "filtered"}

\* C1: after aggregate_with_details, every namespace's total equals its
\* additions plus its deletions and equals the sum of its files' totals, and
\* every file's total equals its additions plus its deletions.
C1_TotalsConsistent ==
    (AggregationDone /\ enhanced) =>
        \A i \in 1..Len(aggregated) :
            LET N == aggregated[i]
                FileSum[k \in 0..Len(N.files)] ==
                    IF k = 0 THEN 0 ELSE FileSum[k - 1] + N.files[k].total
            IN /\ N.total = N.additions + N.deletions
               /\ N.total = FileSum[Len(N.files)]
               /\ \A k \in 1..Len(N.files) :
                      N.files[k].total
                          = N.files[k].additions + N.files[k].deletions

C1_Witness ==
    /\ phase = "aggregated"
    /\ enhanced
    /\ \E i \in 1..Len(aggregated) :
          /\ Len(aggregated[i].files) >= 2
          /\ aggregated[i].additions > 0
          /\ aggregated[i].deletions > 0

\* C2: the keys of the aggregate_with_details result are exactly the
\* namespaces of the input; per namespace, additions and deletions are the
\* sums over the records tagged with it and file_count = len(files) = the
\* number of those records; one record (X, a, d, p) gives
\* {additions: a, deletions: d, total: a + d, file_count: 1}.
C2_SumsPerNamespace ==
    (AggregationDone /\ enhanced) =>
        LET n == Len(all_changes)
            Tagged(ns) == {j \in 1..n : all_changes[j].namespace = ns}
            Sum(ns, field) ==
                LET S[k \in 0..n] ==
                        IF k = 0 THEN 0
                        ELSE S[k - 1] + (IF k \in Tagged(ns)
                                         THEN all_changes[k][field] ELSE 0)
                IN S[n]
        IN /\ {aggregated[i].namespace : i \in 1..Len(aggregated)}
                = {all_changes[j].namespace : j \in 1..n}
           /\ \A i, k \in 1..Len(aggregated) :
                  aggregated[i].namespace = aggregated[k].namespace => i = k
           /\ \A i \in 1..Len(aggregated) :
                  LET N == aggregated[i] IN
                  /\ N.additions = Sum(N.namespace, "additions")
                  /\ N.deletions = Sum(N.namespace, "deletions")
                  /\ N.file_count = Cardinality(Tagged(N.namespace))
                  /\ N.file_count = Len(N.files)
           /\ n = 1 =>
                  /\ Len(aggregated) = 1
                  /\ aggregated[1].additions = all_changes[1].additions
                  /\ aggregated[1].deletions = all_changes[1].deletions
                  /\ aggregated[1].total
                         = all_changes[1].additions + all_changes[1].deletions
                  /\ aggregated[1].file_count = 1

\* two records of one namespace with the same path, and a second namespace
C2_Witness ==
    /\ phase = "aggregated"
    /\ enhanced
    /\ Len(aggregated) = 2
    /\ \E i \in 1..2 :
          /\ aggregated[i].namespace = GLOBAL
          /\ aggregated[i].file_count = 2
          /\ aggregated[i].files[1].path = aggregated[i].files[2].path
          /\ aggregated[i].additions = 701

\* C5: every namespace's pattern is detect_pattern of its final summed
\* additions and deletions; two records (X, 700, 0) and (X, 0, 700) give X
\* the pattern churn.
C5_PatternFromFinalTotals ==
    (AggregationDone /\ enhanced) =>
        LET n == Len(all_changes)
            Sum(ns, field) ==
                LET S[k \in 0..n] ==
                        IF k = 0 THEN 0
                        ELSE S[k - 1] + (IF all_changes[k].namespace = ns
                                         THEN all_changes[k][field] ELSE 0)
                IN S[n]
        IN /\ \A i \in 1..Len(aggregated) :
                  aggregated[i].pattern
                      = detect_pattern(Sum(aggregated[i].namespace, "additions"),
                                       Sum(aggregated[i].namespace, "deletions"))
           /\ \A i \in 1..Len(aggregated) :
                  (/\ Sum(aggregated[i].namespace, "additions") = 700
                   /\ Sum(aggregated[i].namespace, "deletions") = 700)
                      => aggregated[i].pattern = "churn"

C5_Witness ==
    /\ phase = "aggregated"
    /\ enhanced
    /\ Len(all_changes) = 2
    /\ all_changes[1].namespace = all_changes[2].namespace
    /\ all_changes[1].additions = 700 /\ all_changes[1].deletions = 0
    /\ all_changes[2].additions = 0 /\ all_changes[2].deletions = 700
    /\ aggregated[1].pattern = "churn"

\* the change volume of a change tuple or a file entry, by mode
Volume(r) == IF enhanced THEN r.additions + r.deletions ELSE r.lines

\* C6: in the result of aggregate and of aggregate_with_details, each
\* namespace's files list is a permutation of the records folded into that
\* namespace, in non-increasing order of volume, and files of equal volume
\* keep the relative order of their records in the input.
C6_FilesSortedStable ==
    AggregationDone =>
        \A i \in 1..Len(aggregated) :
            LET N == aggregated[i]
                Tagged == {j \in 1..Len(all_changes) :
                              all_changes[j].namespace = N.namespace}
                Before(j, k) ==
                    \/ Volume(all_changes[j]) > Volume(all_changes[k])
                    \/ /\ Volume(all_changes[j]) = Volume(all_changes[k])
                       /\ j < k
                Rank(k) == Cardinality({j \in Tagged : Before(j, k)}) + 1
                Entry(k) ==
                    IF enhanced
                    THEN [path |-> all_changes[k].path,
                          additions |-> all_changes[k].additions,
                          deletions |-> all_changes[k].deletions,
                          total |-> all_changes[k].additions
                                        + all_changes[k].deletions]
                    ELSE [path |-> all_changes[k].path,
                          lines |-> all_changes[k].lines]
            IN /\ Len(N.files) = Cardinality(Tagged)
               /\ \A k \in Tagged : N.files[Rank(k)] = Entry(k)
               /\ \A a, b \in 1..Len(N.files) :
                      a < b => (IF enhanced THEN N.files[a].total >= N.files[b].total
                                ELSE N.files[a].lines >= N.files[b].lines)

\* a small file, then two larger files of equal volume and different paths:
\* the sort moves both in front and keeps their input order
C6_Witness ==
    /\ phase = "aggregated"
    /\ Len(all_changes) = 3
    /\ Len(aggregated) = 1
    /\ Volume(all_changes[1]) < Volume(all_changes[2])
    /\ Volume(all_changes[2]) = Volume(all_changes[3])
    /\ all_changes[2].path # all_changes[3].path
    /\ aggregated[1].files[1].path = all_changes[2].path
    /\ aggregated[1].files[2].path = all_changes[3].path
    /\ aggregated[1].files[3].path = all_changes[1].path

\* the total churn of a namespace entry, by mode
Churn(m) == IF enhanced THEN m.total ELSE m.lines_changed

\* C7: the threshold filter keeps exactly the namespaces whose total churn
\* is at least min_threshold (a total equal to the threshold is kept, a
\* total of threshold - 1 is removed) and leaves their metrics unchanged.
C7_FilterInclusive ==
    phase = "filtered" =>
        /\ \A i \in 1..Len(aggregated) :
              (Churn(aggregated[i]) >= min_threshold)
                  <=> (\E k \in 1..Len(filtered) : filtered[k] = aggregated[i])
        /\ \A k \in 1..Len(filtered) :
              \E i \in 1..Len(aggregated) : filtered[k] = aggregated[i]
        /\ \A k, l \in 1..Len(filtered) :
              filtered[k].namespace = filtered[l].namespace => k = l
        /\ \A i \in 1..Len(aggregated) :
              /\ Churn(aggregated[i]) = min_threshold
                    => aggregated[i].namespace \in Keys(filtered)
              /\ Churn(aggregated[i]) = min_threshold - 1
                    => aggregated[i].namespace \notin Keys(filtered)

C7_Witness ==
    /\ phase = "filtered"
    /\ Len(aggregated) = 2
    /\ Len(filtered) = 1
    /\ \E i, k \in 1..2 :
          /\ Churn(aggregated[i]) = min_threshold
          /\ Churn(aggregated[k]) = min_threshold - 1
          /\ filtered[1] = aggregated[i]

----------------------------------------------------------------------------
(* Properties of the line parser *)

Parsed == parsed # Pending

\* C8 (as stated): parse_numstat_line returns (added, deleted, path), with
\* the path unchanged, for a line of exactly three tab-separated fields whose
\* first two fields are decimal integers, and None in every other case.
C8_AsStated ==
    Parsed =>
        LET fields == Split(line, TAB)
            IsInteger(f) ==
                LET b == IF f # <<>> /\ f[1] \in {"+", "-"} THEN Tail(f) ELSE f
                IN b # <<>> /\ \A i \in 1..Len(b) : b[i] \in Digits
            accepted == /\ Len(fields) = 3
                        /\ IsInteger(fields[1])
                        /\ IsInteger(fields[2])
        IN /\ accepted => (parsed.kind = "tuple" /\ parsed.filepath = fields[3])
           /\ ~accepted => parsed = None

\* C8 (amended): parse_numstat_line first strips the whitespace at both ends
\* of the line.  It returns (added, deleted, path) exactly when the stripped
\* line has three tab-separated fields of which the first two are int()
\* literals (an optional sign and decimal digits, whitespace around them
\* ignored; a lone '-' is none); the counts are the values of the literals
\* and the path is the third field of the stripped line.  In every other
\* case it returns None, and it never raises.
C8_ParseContract ==
    Parsed =>
        LET fields == Split(Strip(line), TAB)
            Body(f) ==
                LET t == Strip(f)
                IN IF t # <<>> /\ t[1] \in {"+", "-"} THEN Tail(t) ELSE t
            IsLiteral(f) ==
                LET b == Body(f) IN
                /\ b # <<>>
                /\ \A i \in 1..Len(b) :
                      \/ b[i] \in Digits
                      \/ /\ b[i] = "_"
                         /\ 1 < i /\ i < Len(b)
                         /\ b[i - 1] \in Digits /\ b[i + 1] \in Digits
            Value(f) ==
                LET b == Body(f)
                    V[i \in 0..Len(b)] ==
                        IF i = 0 THEN 0
                        ELSE IF b[i] = "_" THEN V[i - 1]
                        ELSE 10 * V[i - 1] + DigitValue(b[i])
                IN IF Strip(f)[1] = "-" THEN 0 - V[Len(b)] ELSE V[Len(b)]
            accepted == /\ Len(fields) = 3
                        /\ IsLiteral(fields[1])
                        /\ IsLiteral(fields[2])
        IN /\ parsed.kind \in {"tuple", "None"}
           /\ accepted => parsed = [kind |-> "tuple",
                                    added |-> Value(fields[1]),
                                    deleted |-> Value(fields[2]),
                                    filepath |-> fields[3]]
           /\ ~accepted => parsed = None

\* a line of four fields whose empty first field is stripped away
C8_Witness ==
    /\ parsed.kind = "tuple"
    /\ NumFields(line) = 4
    /\ Head(line) = TAB
    /\ parsed.added = 45
    /\ parsed.filepath = <<"a", ".", "c", "s">>

\* C9: every record returned by parse_numstat_line has additions >= 0 and
\* deletions >= 0; a count field such as '-5' rejects the line.
C9_NonNegativeCounts ==
    (Parsed /\ parsed.kind = "tuple") =>
        /\ parsed.added >= 0
        /\ parsed.deleted >= 0

----------------------------------------------------------------------------
(* Properties of the scans *)

Scanned == scan # "none" /\ scan_result.kind = "list"

\* the last three characters of a path are those of '.cs' or of '.vb'
InScope(path) ==
    /\ Len(path) >= 3
    /\ \/ /\ path[Len(path) - 2] = "." /\ path[Len(path) - 1] = "c"
          /\ path[Len(path)] = "s"
       \/ /\ path[Len(path) - 2] = "." /\ path[Len(path) - 1] = "v"
          /\ path[Len(path)] = "b"

\* C10: is_dotnet_file(path) is true exactly when path ends with '.cs' or
\* '.vb' (case-sensitive), and each of the three scans (parent repository,
\* sub-repository, author scan) turns a history line into a change record
\* only if the line parses and its path is in scope: the records are those
\* of the parsing in-scope lines, in the order of the lines, and no record
\* has another extension or comes from a binary line.
C10_OnlyInScopeRecords ==
    Scanned =>
        LET lines == OutputLines(git_stdout)
            Qualifies(k) ==
                /\ parse_numstat_line(lines[k]) # None
                /\ InScope(parse_numstat_line(lines[k]).filepath)
            Q == {k \in 1..Len(lines) : Qualifies(k)}
            Rank(k) == Cardinality({j \in Q : j < k}) + 1
            P(k) == parse_numstat_line(lines[k])
            Lines(r) == IF enhanced THEN r.additions + r.deletions ELSE r.lines
            Records ==
                IF scan = "author"
                THEN {scan_result.items[i].changes[j] :
                        <<i, j>> \in {<<i, j>> \in (1..Len(scan_result.items))
                                                    \X (1..MaxHistoryLines + 1) :
                                        j <= Len(scan_result.items[i].changes)}}
                ELSE {scan_result.items[i] : i \in 1..Len(scan_result.items)}
        IN /\ \A k \in 1..Len(lines) :
                  P(k) # None =>
                      (is_dotnet_file(P(k).filepath) <=> InScope(P(k).filepath))
           /\ scan = "parent" =>
                  /\ Len(scan_result.items) = Cardinality(Q)
                  /\ \A k \in Q :
                        /\ scan_result.items[Rank(k)].path = P(k).filepath
                        /\ Lines(scan_result.items[Rank(k)])
                               = P(k).added + P(k).deleted
           /\ scan = "submodule" =>
                  /\ Len(scan_result.items) = Cardinality(Q)
                  /\ \A k \in Q :
                        /\ scan_result.items[Rank(k)].path
                               = SubmodulePath \o <<"/">> \o P(k).filepath
                        /\ Lines(scan_result.items[Rank(k)])
                               = P(k).added + P(k).deleted
           /\ scan = "author" =>
                  \A r \in Records :
                      \E k \in Q : /\ r.path = P(k).filepath
                                   /\ r.lines = P(k).added + P(k).deleted
           /\ \A r \in Records : InScope(r.path)

\* a parent scan of an in-scope line, a binary line with an in-scope path
\* and a line with an upper-case extension: one record
C10_Witness ==
    /\ scan = "parent"
    /\ scan_result.kind = "list"
    /\ Len(scan_result.items) = 1
    /\ \E k \in 1..Len(OutputLines(git_stdout)) :
          OutputLines(git_stdout)[k]
              = <<"-", "\t", "-", "\t", "d", ".", "c", "s">>
    /\ \E k \in 1..Len(OutputLines(git_stdout)) :
          OutputLines(git_stdout)[k]
              = <<"5", "\t", "5", "\t", "e", ".", "C", "S">>

----------------------------------------------------------------------------
(* Properties of the extractor *)

Extracted == ns_result # Pending

IsCsharp == EndsWith(ns_filepath, DotCs)
IsVbnet == ~IsCsharp /\ EndsWith(ns_filepath, DotVb)

\* the comments of a C# text as the language defines them, read from left
\* to right: '//' outside a comment opens a comment that ends with the
\* line, '/*' outside a comment opens one that ends with the next '*/'.
\* code is the text outside the comments, open tells whether the text ends
\* inside a block comment.
RECURSIVE OutsideComments(_, _, _, _)
OutsideComments(text, i, mode, code) ==
    IF i > Len(text) THEN [code |-> code, open |-> mode = "block"]
    ELSE IF mode = "line"
         THEN IF text[i] = NEWLINE
              THEN OutsideComments(text, i + 1, "code", Append(code, NEWLINE))
              ELSE OutsideComments(text, i + 1, "line", code)
    ELSE IF mode = "block"
         THEN IF StartsAt(text, BlockClose, i)
              THEN OutsideComments(text, i + 2, "code", code)
              ELSE OutsideComments(text, i + 1, "block", code)
    ELSE IF StartsAt(text, LineComment, i)
         THEN OutsideComments(text, i + 2, "line", code)
    ELSE IF StartsAt(text, BlockOpen, i)
         THEN OutsideComments(text, i + 2, "block", code)
    ELSE OutsideComments(text, i + 1, "code", Append(code, text[i]))

CsharpCode == OutsideComments(ns_content, 1, "code", <<>>).code
CommentsClosed == ~OutsideComments(ns_content, 1, "code", <<>>).open

\* the positions of the declarations of one form in a text
Declarations(text, terminator, ignoreCase) ==
    {k \in 1..Len(text) : DeclarationAt(text, k, terminator, ignoreCase).found}

\* the names declared outside all comments of the C# content
DeclaredOutsideComments ==
    {DeclarationAt(CsharpCode, k, "", FALSE).name :
        k \in Declarations(CsharpCode, ";", FALSE)
                \cup Declarations(CsharpCode, "{", FALSE)}

\* C11: for a C# text made of line comments, block comments (closed, maybe
\* of several lines, maybe with '//' inside) and declarations,
\* extract_namespace returns '(global)' or a name declared outside all
\* comments, never a name that stands inside a comment only.
C11_NeverFromComment ==
    (Extracted /\ IsCsharp /\ CommentsClosed) =>
        \/ ns_result = Str(GlobalText)
        \/ ns_result.chars \in DeclaredOutsideComments

\* the content that remains after _remove_comments
Remaining == remove_comments(ns_content, ns_filepath)

\* C12 as stated: of the declarations outside the comments of a C# text,
\* the one that stands first in the text is returned, whichever its form.
C12_LexicallyFirst ==
    (Extracted /\ IsCsharp /\ Strip(ns_content) # <<>>) =>
        LET hits == Declarations(Remaining, ";", FALSE)
                        \cup Declarations(Remaining, "{", FALSE)
        IN hits # {} =>
               ns_result.chars = DeclarationAt(Remaining, Min(hits), "", FALSE).name

\* C12: the name extract_namespace returns for a C# text is that of a
\* declaration of the text remaining after comment removal; it is the first
\* semicolon-terminated declaration when there is one, whatever stands
\* before it, and the first brace-delimited declaration otherwise; with no
\* declaration of either form the result is '(global)'.
C12_FormThenPosition ==
    (Extracted /\ IsCsharp /\ Strip(ns_content) # <<>>) =>
        LET scoped == Declarations(Remaining, ";", FALSE)
            braced == Declarations(Remaining, "{", FALSE)
        IN /\ scoped # {} =>
                  /\ \E k \in scoped :
                        /\ ns_result.chars
                               = DeclarationAt(Remaining, k, ";", FALSE).name
                        /\ \A j \in scoped : k <= j
           /\ (scoped = {} /\ braced # {}) =>
                  /\ \E k \in braced :
                        /\ ns_result.chars
                               = DeclarationAt(Remaining, k, "{", FALSE).name
                        /\ \A j \in braced : k <= j
           /\ (scoped = {} /\ braced = {}) => ns_result = Str(GlobalText)

\* a brace-delimited declaration stands before a semicolon-terminated one
\* and the later one is returned
C12_Witness ==
    /\ Extracted
    /\ IsCsharp
    /\ \E k \in Declarations(Remaining, "{", FALSE) :
          /\ \A j \in Declarations(Remaining, ";", FALSE) : k < j
          /\ Declarations(Remaining, ";", FALSE) # {}
          /\ ns_result.chars # DeclarationAt(Remaining, k, "{", FALSE).name

\* C13: extract_namespace returns a non-empty string, and it returns
\* '(global)' when the content is empty or whitespace only, when the file
\* name ends neither in '.cs' nor in '.vb', and when no declaration stands
\* outside the comments of the content.
C13_SentinelCases ==
    Extracted =>
        /\ ns_result.kind = "str"
        /\ ns_result.chars # <<>>
        /\ Strip(ns_content) = <<>> => ns_result = Str(GlobalText)
        /\ (~IsCsharp /\ ~IsVbnet) => ns_result = Str(GlobalText)
        /\ (IsCsharp /\ CommentsClosed /\ DeclaredOutsideComments = {})
               => ns_result = Str(GlobalText)
        /\ (IsVbnet /\ Declarations(RemoveLineComments(ns_content, VbComment),
                                    "", TRUE) = {})
               => ns_result = Str(GlobalText)

----------------------------------------------------------------------------
(* Properties of the ownership calculation *)

Calculated == own_result # Pending

\* the observations of the input, in the order of the authors and, for one
\* author, of the changes
ObservationSet ==
    UNION {{<<k, c>> : c \in 1..Len(own_changes[k].changes)} :
              k \in 1..Len(own_changes)}

Observation(o) == own_changes[o[1]].changes[o[2]]

\* author k of the input has an observation of the namespace
Contributes(k, ns) ==
    \E o \in ObservationSet : o[1] = k /\ Observation(o).namespace = ns

\* the lines author k of the input has in the namespace, summed over the
\* observations
ObservedLines(k, ns) ==
    LET changes == own_changes[k].changes
        S[c \in 0..Len(changes)] ==
            IF c = 0 THEN 0
            ELSE S[c - 1] + (IF changes[c].namespace = ns
                             THEN changes[c].lines ELSE 0)
    IN S[Len(changes)]

\* the lines of all authors in the namespace
ObservedTotal(ns) ==
    LET T[k \in 0..Len(own_changes)] ==
            IF k = 0 THEN 0 ELSE T[k - 1] + ObservedLines(k, ns)
    IN T[Len(own_changes)]

\* the position in the input of the author of an entry of all_authors
InputPosition(author) ==
    CHOOSE k \in 1..Len(own_changes) : own_changes[k].author = author

\* C14: the result of calculate_ownership has one entry for each namespace
\* of an observation and no other; in it all_authors has one entry for each
\* author with an observation of the namespace, holding the sum of that
\* author's lines there, total_lines is the sum of all of them,
\* primary_lines is the all_authors value of primary_author, and no author
\* has a strictly larger sum.
C14_OwnershipSums ==
    Calculated =>
        LET result == own_result.items IN
        /\ {result[n].namespace : n \in 1..Len(result)}
               = {Observation(o).namespace : o \in ObservationSet}
        /\ \A n, n2 \in 1..Len(result) :
               result[n].namespace = result[n2].namespace => n = n2
        /\ \A n \in 1..Len(result) :
               LET E == result[n]
                   A == E.all_authors
               IN /\ {A[a].author : a \in 1..Len(A)}
                         = {own_changes[k].author :
                               k \in {j \in 1..Len(own_changes) :
                                         Contributes(j, E.namespace)}}
                  /\ \A a, a2 \in 1..Len(A) :
                         A[a].author = A[a2].author => a = a2
                  /\ \A a \in 1..Len(A) :
                         A[a].lines = ObservedLines(InputPosition(A[a].author),
                                                    E.namespace)
                  /\ E.total_lines = ObservedTotal(E.namespace)
                  /\ \E a \in 1..Len(A) :
                         /\ A[a].author = E.primary_author
                         /\ A[a].lines = E.primary_lines
                  /\ \A a \in 1..Len(A) : A[a].lines <= E.primary_lines

\* two authors share a namespace and one of them has two observations of it
C14_Witness ==
    /\ Calculated
    /\ \E n \in 1..Len(own_result.items) :
          /\ Len(own_result.items[n].all_authors) >= 2
          /\ own_result.items[n].total_lines = 3
          /\ own_result.items[n].primary_lines = 2
          /\ \E o, o2 \in ObservationSet :
                /\ o[1] = o2[1]
                /\ o[2] # o2[2]
                /\ Observation(o).namespace = own_result.items[n].namespace
                /\ Observation(o2).namespace = own_result.items[n].namespace

NonNegativeInput == \A o \in ObservationSet : Observation(o).lines >= 0

\* a < b for two sequences of bits that start with 1
BitsLess(a, b) ==
    \/ Len(a) < Len(b)
    \/ /\ Len(a) = Len(b)
       /\ \E i \in 1..Len(a) :
             /\ a[i] < b[i]
             /\ \A j \in 1..(i - 1) : a[j] = b[j]

\* x <= y for two floats above 0
FloatAtMost(x, y) ==
    \/ x = y
    \/ x.exp < y.exp
    \/ x.exp = y.exp /\ BitsLess(x.mant, y.mant)

\* bits + k for a small natural number k
Plus(bits, k) == TimesFrom(bits, 1, Len(bits), k)

\* the float x > 0 with a negative exponent differs from the quotient
\* num / den by less than two units of its last place:
\* |mant * den - num * 2^(-exp)| < 2 * den
WithinTwoUnits(x, num, den) ==
    LET scaledFloat == Times(x.mant, den)
        scaledExact == BitsOf(num) \o Zeros(0 - x.exp)
    IN /\ x.exp < 0
       /\ BitsLess(scaledFloat, Plus(scaledExact, 2 * den))
       /\ BitsLess(scaledExact, Plus(scaledFloat, 2 * den))

\* C15 as stated: for line counts that are not negative, primary_lines <=
\* total_lines, ownership_percent is 0 when total_lines is 0 and otherwise
\* ownership_percent * total_lines == primary_lines * 100, the percentage
\* lies in (0, 100] and is at least 100 / n for n authors of the namespace.
C15_ExactPercent ==
    (Calculated /\ NonNegativeInput) =>
        \A n \in 1..Len(own_result.items) :
            LET E == own_result.items[n] IN
            /\ E.primary_lines <= E.total_lines
            /\ E.total_lines = 0 => E.ownership_percent = Zero
            /\ E.total_lines > 0 =>
                   /\ FloatTimes(E.ownership_percent, E.total_lines)
                          = FloatOfInt(E.primary_lines * PercentScale)
                   /\ E.ownership_percent # Zero
                   /\ FloatAtMost(E.ownership_percent, FloatOfInt(PercentScale))
                   /\ FloatAtMost(TrueDivide(PercentScale, Len(E.all_authors)),
                                  E.ownership_percent)

\* C15: for line counts that are not negative, primary_lines <=
\* total_lines; ownership_percent is 0 when total_lines is 0; otherwise it
\* is the float primary_lines / total_lines * 100, which lies in (0, 100],
\* is 100 exactly when primary_lines = total_lines, and differs from the
\* exact quotient 100 * primary_lines / total_lines by less than two units
\* of its last place; the exact quotient is at least 100 / n for n authors
\* of the namespace.
C15_PercentRounded ==
    (Calculated /\ NonNegativeInput) =>
        \A n \in 1..Len(own_result.items) :
            LET E == own_result.items[n] IN
            /\ E.primary_lines <= E.total_lines
            /\ E.total_lines = 0 => E.ownership_percent = Zero
            /\ E.total_lines > 0 =>
                   /\ E.primary_lines > 0
                   /\ E.ownership_percent # Zero
                   /\ FloatAtMost(E.ownership_percent, FloatOfInt(PercentScale))
                   /\ E.ownership_percent = FloatOfInt(PercentScale)
                          <=> E.primary_lines = E.total_lines
                   /\ WithinTwoUnits(E.ownership_percent,
                                     E.primary_lines * PercentScale,
                                     E.total_lines)
                   /\ E.primary_lines * Len(E.all_authors) >= E.total_lines

\* three authors with one line each: the percentage times 3 is not 100
C15_Witness ==
    /\ Calculated
    /\ NonNegativeInput
    /\ \E n \in 1..Len(own_result.items) :
          LET E == own_result.items[n] IN
          /\ E.total_lines = 3
          /\ E.primary_lines = 1
          /\ Len(E.all_authors) = 3
          /\ FloatTimes(E.ownership_percent, E.total_lines)
                 # FloatOfInt(E.primary_lines * PercentScale)

\* the authors of the input that have the largest sum of a namespace
Largest(ns) ==
    {k \in 1..Len(own_changes) :
        /\ Contributes(k, ns)
        /\ \A j \in 1..Len(own_changes) :
               Contributes(j, ns) => ObservedLines(j, ns) <= ObservedLines(k, ns)}

\* the input with the authors in the opposite order
Reversed(changes_by_author) ==
    [k \in 1..Len(changes_by_author) |->
        changes_by_author[Len(changes_by_author) + 1 - k]]

\* C16: of the authors with the largest sum of a namespace, primary_author
\* is the one that comes first in the input, which is the order in which
\* the authors enter the mapping of the namespace; with the authors of the
\* input in the opposite order it is the one that comes last, so that the
\* order of the input decides between tied authors.
C16_FirstTiedWins ==
    Calculated =>
        /\ \A n \in 1..Len(own_result.items) :
               LET E == own_result.items[n] IN
               /\ E.primary_author
                      = own_changes[Min(Largest(E.namespace))].author
               /\ \A a, a2 \in 1..Len(E.all_authors) :
                      a < a2 => InputPosition(E.all_authors[a].author)
                                    < InputPosition(E.all_authors[a2].author)
        /\ LET opposite == calculate_ownership(Reversed(own_changes)) IN
           \A n \in 1..Len(opposite) :
               \A k \in Largest(opposite[n].namespace) :
                   (\A j \in Largest(opposite[n].namespace) : j <= k)
                       => opposite[n].primary_author = own_changes[k].author

\* two authors are tied and the order of the input decides
C16_Witness ==
    /\ Calculated
    /\ \E n \in 1..Len(own_result.items) :
          LET E == own_result.items[n]
              opposite == calculate_ownership(Reversed(own_changes))
          IN /\ Cardinality(Largest(E.namespace)) >= 2
             /\ E.primary_lines > 0
             /\ \E m \in 1..Len(opposite) :
                   /\ opposite[m].namespace = E.namespace
                   /\ opposite[m].primary_author # E.primary_author

----------------------------------------------------------------------------
(* Properties of a run of analyze *)

\* the periods analyze accepts
AcceptedPeriods == {"1 month", "3 months", "1 year"}

\* analyze has been entered and has looked at the period
PeriodChecked == phase \notin {"main", "validate"} /\ exit_code # 2

\* C17: analyze called with a period that is not one of '1 month',
\* '3 months', '1 year' raises a configuration error (ValueError) before any
\* external call: at no point of such a run has a history command or any
\* other command been run, a sub-repository been discovered, a file been
\* opened or a change been collected; and a ValueError is raised for no
\* other period.
C17_InvalidPeriodRejected ==
    /\ run_period \notin AcceptedPeriods =>
          /\ run_calls = <<>>
          /\ run_opened = {}
          /\ run_submodules = Pending
          /\ all_changes = <<>>
          /\ run_output = Pending
          /\ PeriodChecked => run_result = Raised("ValueError")
    /\ run_result = Raised("ValueError") => run_period \notin AcceptedPeriods

\* analyze called directly with '2 weeks' has raised
C17_Witness ==
    /\ run_entry = "analyze"
    /\ run_period = "2 weeks"
    /\ phase = "raised"
    /\ run_result = Raised("ValueError")

\* the history command of the main tree has ended with 'not a git
\* repository'
NotARepository ==
    /\ run_calls # <<>>
    /\ run_calls[1].call = "log"
    /\ run_calls[1].unit = <<>>
    /\ run_calls[1].status = "not_a_repository"

\* C18: when the history command of the main tree exits non-zero with 'not
\* a git repository', analyze raises (RuntimeError) and the run is over: no
\* text is returned, no further command is run (no sub-repository is
\* discovered or processed), nothing is aggregated, filtered or formatted,
\* and main prints the error on stderr and returns 1.
C18_NotARepositoryAborts ==
    NotARepository =>
        /\ run_result = Raised("RuntimeError")
        /\ phase \in {"raised", "exited"}
        /\ Len(run_calls) = 1
        /\ run_submodules = Pending
        /\ run_opened = {}
        /\ all_changes = <<>> /\ aggregated = <<>> /\ filtered = <<>>
        /\ run_output = Pending
        /\ phase = "exited" =>
              /\ exit_code = 1
              /\ printed.stream = "stderr"
        /\ phase = "raised" => exit_code = 0 - 1 /\ printed = Pending

\* main has returned 1 after 'not a git repository'
C18_Witness ==
    /\ NotARepository
    /\ run_entry = "main"
    /\ phase = "exited"
    /\ exit_code = 1
    /\ run_result = Raised("RuntimeError")

\* the records of the lines of one history output that parse and are in
\* scope, in the order of the lines, with the path as the unit reports it
RECURSIVE UnitRecords(_, _)
UnitRecords(lines, unit) ==
    IF lines = <<>> THEN <<>>
    ELSE LET p == parse_numstat_line(Head(lines)) IN
         (IF p # None /\ InScope(p.filepath)
          THEN <<[path |-> IF unit = <<>> THEN p.filepath
                           ELSE unit \o <<"/">> \o p.filepath,
                  added |-> p.added, deleted |-> p.deleted]>>
          ELSE <<>>) \o UnitRecords(Tail(lines), unit)

\* the history ('log') commands of a unit that succeeded
Succeeded(unit) ==
    {i \in 1..Len(run_calls) :
        /\ run_calls[i].call = "log"
        /\ run_calls[i].unit = unit
        /\ run_calls[i].status = "ok"}

\* the records of a unit: those of its history output when the command
\* succeeded, none when the unit failed in any way
RecordsOf(unit) ==
    IF Succeeded(unit) = {} THEN <<>>
    ELSE UnitRecords(OutputLines(
             run_calls[CHOOSE i \in Succeeded(unit) : TRUE].stdout), unit)

\* the sub-repositories whose turn of the loop is over
Processed ==
    IF run_submodules = Pending THEN <<>>
    ELSE SubSeq(run_submodules.items, 1, run_next - 1)

RECURSIVE RecordsOfAll(_)
RecordsOfAll(units) ==
    IF units = <<>> THEN <<>>
    ELSE RecordsOf(Head(units)) \o RecordsOfAll(Tail(units))

\* the records of the main tree, then of the processed sub-repositories
ExpectedRecords == RecordsOf(<<>>) \o RecordsOfAll(Processed)

\* a sub-repository that failed: its directory is missing, it is not a
\* repository or its history command ended non-zero
FailedUnits ==
    {run_calls[i].unit : i \in {j \in 1..Len(run_calls) :
        /\ run_calls[j].call \in {"isdir", "rev-parse", "log"}
        /\ run_calls[j].unit # <<>>
        /\ run_calls[j].status # "ok"}}

\* the history of the main tree has been read and was not 'not a git
\* repository'
MainTreeRead ==
    /\ run_calls # <<>>
    /\ run_calls[1].status # "not_a_repository"

\* aggregate or aggregate_with_details has run
RunAggregated ==
    /\ all_changes # <<>>
    /\ phase \in {"filter", "format", "ownership", "returned", "exited"}

\* the counts of a change tuple agree with those of a record
SameCounts(c, r) ==
    IF enhanced THEN c.additions = r.added /\ c.deletions = r.deleted
    ELSE c.lines = r.added + r.deleted

\* the entries of the files lists of the aggregate, as (namespace, position)
AggregatedFiles ==
    UNION { {<<i, j>> : j \in 1..Len(aggregated[i].files)}
            : i \in 1..Len(aggregated) }

\* C19: a non-zero status other than 'not a git repository' gives an empty
\* change list for that unit only.  Whatever sub-repositories fail (missing
\* directory, not a repository, non-zero log status) and whether or not the
\* history command of the main tree fails, analyze does not raise; the
\* collected changes are exactly the records of the main tree and of the
\* sub-repositories whose history command succeeded, in that order, and the
\* aggregate holds exactly these records.
C19_FailedUnitsAreEmpty ==
    MainTreeRead =>
        LET expected == ExpectedRecords IN
        /\ run_result.kind # "raised"
        /\ exit_code \in {0 - 1, 0}
        /\ \A unit \in FailedUnits : RecordsOf(unit) = <<>>
        /\ run_calls[1].status # "ok" => RecordsOf(<<>>) = <<>>
        /\ Len(all_changes) = Len(expected)
        /\ \A k \in 1..Len(all_changes) :
              /\ all_changes[k].path = expected[k].path
              /\ SameCounts(all_changes[k], expected[k])
        /\ RunAggregated =>
              /\ Cardinality(AggregatedFiles) = Len(expected)
              /\ \A k \in 1..Len(expected) :
                    \E f \in AggregatedFiles :
                        LET file == aggregated[f[1]].files[f[2]] IN
                        /\ file.path = expected[k].path
                        /\ IF enhanced
                           THEN /\ file.additions = expected[k].added
                                /\ file.deletions = expected[k].deleted
                           ELSE file.lines = expected[k].added
                                                 + expected[k].deleted

\* the main tree's history command failed, the first sub-repository is not
\* a repository, the second one succeeded with records, and a report was
\* returned
C19_Witness ==
    /\ MainTreeRead
    /\ run_calls[1].status = "failed"
    /\ run_submodules = List(<<SubmodulePath, <<"t">>>>)
    /\ SubmodulePath \in FailedUnits
    /\ RecordsOf(<<"t">>) # <<>>
    /\ RunAggregated
    /\ run_result.kind = "returned"
    /\ run_result.text.kind = "report"

\* the collected records whose file cannot be opened
UnreadableAmong(records) ==
    {k \in 1..Len(records) : records[k].path \in unreadable}

UnreadableRecords == UnreadableAmong(ExpectedRecords)

\* the collected records under the sentinel
GlobalRecords ==
    {k \in 1..Len(all_changes) : all_changes[k].namespace = GLOBAL}

\* the sum of a count over the records at the positions S
RECURSIVE SumAt(_, _, _)
SumAt(records, S, field) ==
    IF S = {} THEN 0
    ELSE LET k == CHOOSE i \in S : TRUE IN
         records[k][field] + SumAt(records, S \ {k}, field)

\* the author history commands that succeeded
AuthorLogs ==
    {i \in 1..Len(run_calls) :
        run_calls[i].call = "author_log" /\ run_calls[i].status = "ok"}

\* the author history output of call i has an in-scope line, below an
\* author line, whose file cannot be opened
UnreadableObservation(i) ==
    LET lines == OutputLines(run_calls[i].stdout) IN
    \E k \in 2..Len(lines) :
        /\ ~Contains(lines[1], TAB) /\ Strip(lines[1]) # <<>>
        /\ parse_numstat_line(lines[k]) # None
        /\ InScope(parse_numstat_line(lines[k]).filepath)
        /\ (IF run_calls[i].unit = <<>>
            THEN parse_numstat_line(lines[k]).filepath
            ELSE PathJoin(run_calls[i].unit,
                          parse_numstat_line(lines[k]).filepath))
               \in unreadable

\* C20: a file of a change record that cannot be opened does not abort the
\* run and does not drop the record.  The record is collected under
\* '(global)' with its additions and deletions intact, and the '(global)'
\* entry of the aggregate counts it: its file_count is the number of
\* records under the sentinel and its totals are their sums, the unreadable
\* ones included.  An author observation of such a file is counted under
\* '(global)' in the ownership report as well.
C20_UnreadableIsGlobal ==
    /\ run_opened \cap unreadable # {} => run_result.kind # "raised"
    /\ MainTreeRead =>
          LET expected == ExpectedRecords
              lost == UnreadableAmong(expected)
              global == GlobalRecords
          IN
          /\ lost \subseteq global
          /\ \A k \in lost :
                /\ expected[k].path \in run_opened
                /\ SameCounts(all_changes[k], expected[k])
          /\ (RunAggregated /\ lost # {}) =>
                /\ KeyIndex(aggregated, GLOBAL) # 0
                /\ LET g == aggregated[KeyIndex(aggregated, GLOBAL)]
                       added == SumAt(expected, global, "added")
                       deleted == SumAt(expected, global, "deleted")
                   IN
                   /\ g.file_count = Cardinality(global)
                   /\ Len(g.files) = Cardinality(global)
                   /\ IF enhanced
                      THEN /\ g.additions = added
                           /\ g.deletions = deleted
                           /\ g.total = added + deleted
                      ELSE g.lines_changed = added + deleted
                   /\ \A k \in lost :
                         \E j \in 1..Len(g.files) :
                             g.files[j].path = expected[k].path
    /\ (phase \in {"returned", "exited"}
            /\ \E i \in AuthorLogs : UnreadableObservation(i)) =>
          /\ run_result.kind = "returned"
          /\ \E j \in 1..Len(run_result.text.ownership) :
                run_result.text.ownership[j].namespace = GLOBAL

\* a.cs of the main tree cannot be opened and s/a.cs neither, both have a
\* record, and the aggregate of a returned report counts two files and 16
\* lines under '(global)'
C20_Witness ==
    /\ MainTreeRead
    /\ Cardinality(UnreadableRecords) = 2
    /\ Len(all_changes) > 2
    /\ RunAggregated
    /\ KeyIndex(aggregated, GLOBAL) # 0
    /\ aggregated[KeyIndex(aggregated, GLOBAL)].file_count
           = Cardinality(GlobalRecords)
    /\ run_result.kind = "returned"
    /\ run_result.text.kind = "report"

\* the steps of a run in the order of the code; a raised exception ends the
\* run like a return does
PhaseOrder ==
    <<"main", "validate", "parent", "discover", "submodules", "aggregate",
      "filter", "format", "ownership", "returned", "exited">>

PhaseRank(p) ==
    CHOOSE i \in DOMAIN PhaseOrder :
        PhaseOrder[i] = (IF p = "raised" THEN "returned" ELSE p)

HistoryCommands == {"log", "author_log"}

\* the units of the calls of one kind, in the order of the calls
UnitsOf(name) ==
    LET hits == SelectSeq(run_calls, LAMBDA c : c.call = name)
    IN [i \in 1..Len(hits) |-> hits[i].unit]

\* the history command whose output led to the open() at position j
HistoryBefore(j) ==
    LET before == {i \in 1..(j - 1) : run_calls[i].call \in HistoryCommands}
    IN IF before = {} THEN 0
       ELSE CHOOSE i \in before : \A k \in before : k <= i

\* the path was opened for the unit: the main tree opens the path as it is
\* written, a sub-repository opens it below its directory
OpenedFor(path, unit) ==
    \/ unit = <<>>
    \/ /\ Len(path) > Len(unit)
       /\ SubSeq(path, 1, Len(unit) + 1) = unit \o <<"/">>

\* the original statement of C21 on the call log: extraction never comes
\* before the collection of history, so no history command follows an
\* open() of a changed file
C21_AsStated ==
    \A i, j \in 1..Len(run_calls) :
        (i < j /\ run_calls[i].call = "open")
            => run_calls[j].call \notin HistoryCommands

\* every open() follows the history command of its own unit, the units are
\* read main tree first and then the sub-repositories in discovery order,
\* for the change history and for the author history alike
UnitsInOrder ==
    /\ \A j \in 1..Len(run_calls) :
          run_calls[j].call = "open" =>
              /\ HistoryBefore(j) # 0
              /\ run_calls[HistoryBefore(j)].status = "ok"
              /\ OpenedFor(run_calls[j].unit,
                           run_calls[HistoryBefore(j)].unit)
    /\ run_calls # <<>> =>
          /\ run_calls[1].call = "log"
          /\ run_calls[1].unit = <<>>
    /\ run_submodules # Pending =>
          UnitsOf("isdir") = SubSeq(run_submodules.items, 1, run_next - 1)
    /\ LET logged == UnitsOf("log")
           listed == UnitsOf("isdir")
       IN \A a, b \in 2..Len(logged) :
              a < b => \E x, y \in 1..Len(listed) :
                           /\ x < y
                           /\ listed[x] = logged[a]
                           /\ listed[y] = logged[b]
    /\ UnitsOf("author_log") # <<>> =>
          UnitsOf("author_log") = <<(<<>>)>> \o run_submodules.items

\* C21: the steps of a run never go back: validation, collection (for each
\* unit its history command and then the reads of its changed files, main
\* tree first, then the sub-repositories in discovery order), aggregation,
\* filtering, formatting, ownership, return.  The collected records change
\* only during collection, the aggregate is computed once from the records
\* of all units, the filter is applied to that aggregate, the formatter
\* receives exactly the filtered entries, and the ownership step, which
\* runs its own history commands and file reads, leaves the rows of the
\* formatted report as they were.
C21_PhasesInOrder ==
    [][/\ PhaseRank(phase') >= PhaseRank(phase)
       /\ UnitsInOrder'
       /\ all_changes' # all_changes => phase \in {"parent", "submodules"}
       /\ aggregated' # aggregated =>
             /\ phase = "aggregate"
             /\ run_next > Len(run_submodules.items)
             /\ Len(all_changes) = Len(ExpectedRecords)
             /\ Keys(aggregated')
                    = {all_changes[i].namespace : i \in 1..Len(all_changes)}
       /\ filtered' # filtered =>
             /\ phase = "filter"
             /\ all_changes' = all_changes
             /\ filtered' = SelectSeq(aggregated,
                                LAMBDA e : Churn(e) >= min_threshold)
       /\ phase = "format" =>
             /\ filtered # <<>>
             /\ run_output'.kind = "report"
             /\ Len(run_output'.rows) = Len(filtered)
             /\ \A i \in 1..Len(filtered) :
                   \E j \in 1..Len(filtered) : run_output'.rows[j] = filtered[i]
             /\ run_calls' = run_calls
       /\ phase = "ownership" =>
             /\ run_output.kind = "report"
             /\ run_output'.rows = run_output.rows
             /\ run_output'.formatter = run_output.formatter
             /\ \A i \in (Len(run_calls) + 1)..Len(run_calls') :
                   run_calls'[i].call \in {"author_log", "open"}
       /\ phase \notin {"parent", "discover", "submodules", "ownership"}
             => run_calls' = run_calls
      ]_vars

\* a returned report with an ownership block of a run over the main tree
\* and two sub-repositories, in which the history of a sub-repository was
\* read after a file of the main tree had been opened
C21_Witness ==
    /\ phase = "returned"
    /\ run_result.kind = "returned"
    /\ run_result.text.kind = "report"
    /\ run_result.text.ownership # <<>>
    /\ Len(run_submodules.items) > 1
    /\ \E i, j \in 1..Len(run_calls) :
          /\ i < j
          /\ run_calls[i].call = "open"
          /\ run_calls[j].call = "log"
          /\ run_calls[j].unit = SubmodulePath

\* the process has ended with a message on its error stream
ErrorReported == phase = "exited" /\ printed.stream = "stderr"

\* the original statement of C22: status 0 with the text on standard
\* output when analyze returned, and status 1 for every reported error
C22_AsStated ==
    /\ (phase = "exited" /\ run_result.kind = "returned") =>
          /\ exit_code = 0
          /\ printed = [stream |-> "stdout", text |-> run_result.text]
    /\ ErrorReported => exit_code = 1

\* C22: the command line entry point ends with status 0 and the text on
\* standard output whenever analyze returns text, and with status 1 and
\* the message on the error stream, nothing on standard output, whenever
\* analyze raises; through the entry point that is the environment error
\* only.  A period outside the three choices is rejected by the argument
\* parser before analyze is called: the process ends with status 2 and the
\* usage message on the error stream, and no external call is made.
C22_ExitCodes ==
    /\ (run_entry = "main" /\ phase # "exited") =>
          /\ exit_code = 0 - 1
          /\ printed = Pending
    /\ phase = "exited" =>
          /\ run_entry = "main"
          /\ run_result.kind = "returned" =>
                /\ exit_code = 0
                /\ printed = [stream |-> "stdout", text |-> run_result.text]
          /\ run_result.kind = "raised" =>
                /\ exit_code = 1
                /\ printed = [stream |-> "stderr",
                              text |-> run_result.exception]
                /\ run_result.exception = "RuntimeError"
                /\ NotARepository
          /\ run_result = Pending <=> run_period \notin PeriodChoices
          /\ run_result = Pending =>
                /\ exit_code = 2
                /\ printed = [stream |-> "stderr", text |-> "usage"]
                /\ run_calls = <<>>
          /\ ErrorReported <=> exit_code \in {1, 2}

\* the entry point has ended with status 1 and the exception on the error
\* stream after the history command of the main tree reported that it is
\* not inside a repository
C22_Witness ==
    /\ phase = "exited"
    /\ exit_code = 1
    /\ printed.stream = "stderr"
    /\ run_result.kind = "raised"
    /\ run_calls # <<>>

\* a tabular export has been produced and returned
CsvReturned ==
    /\ phase \in {"returned", "exited"}
    /\ run_result.kind = "returned"
    /\ run_result.text.kind = "report"
    /\ run_format = "csv"

\* the column of the total churn in a line of the export
TotalColumn == IF enhanced THEN 4 ELSE 2

\* the namespaces of the aggregate that reach the threshold
PassedFilter ==
    {aggregated[i].namespace : i \in
        {k \in 1..Len(aggregated) : Churn(aggregated[k]) >= min_threshold}}

\* the position of the first collected record of a namespace
FirstSeen(ns) ==
    CHOOSE i \in 1..Len(all_changes) :
        /\ all_changes[i].namespace = ns
        /\ \A k \in 1..(i - 1) : all_changes[k].namespace # ns

\* the lines changed by the collected records of a namespace
RECURSIVE NamespaceVolume(_, _)
NamespaceVolume(changes, ns) ==
    IF changes = <<>> THEN 0
    ELSE (IF Head(changes).namespace = ns THEN Volume(Head(changes)) ELSE 0)
         + NamespaceVolume(Tail(changes), ns)

\* C23: the tabular export, basic and enhanced, has after its header
\* exactly one line for every namespace that passed the filter and no
\* other line; every line carries the total churn of its namespace; the
\* lines are in non-increasing order of total churn, and lines with equal
\* totals stand in the order in which their namespaces were first seen.
C23_OneRowPerNamespace ==
    CsvReturned =>
        LET csv == run_result.text.csv
            rows == csv.lines
            t == TotalColumn
        IN
        /\ run_result.text.formatter
               = (IF enhanced THEN "format_csv_enhanced" ELSE "format_csv")
        /\ csv.header
               = (IF enhanced
                  THEN <<"namespace", "added", "deleted", "total", "files",
                         "pattern">>
                  ELSE <<"namespace", "lines_changed", "file_count">>)
        /\ Len(rows) = Cardinality(PassedFilter)
        /\ {rows[i][1] : i \in 1..Len(rows)} = PassedFilter
        /\ \A i \in 1..Len(rows) :
              rows[i][t] = NamespaceVolume(all_changes, rows[i][1])
        /\ \A i, j \in 1..Len(rows) :
              i < j =>
                  \/ rows[i][t] > rows[j][t]
                  \/ /\ rows[i][t] = rows[j][t]
                     /\ FirstSeen(rows[i][1]) < FirstSeen(rows[j][1])

\* an export of two namespaces with equal totals, while a third namespace
\* of the aggregate stayed below the threshold
C23_Witness ==
    /\ CsvReturned
    /\ Len(run_result.text.csv.lines) = 2
    /\ run_result.text.csv.lines[1][TotalColumn]
           = run_result.text.csv.lines[2][TotalColumn]
    /\ Len(aggregated) = 3

\* a history command that ended with a non-zero status other than 'not a
\* git repository'
FailedHistory(c) == c.call \in HistoryCommands /\ c.status = "failed"

\* the same call answered with status 0 and no output
AsEmpty(c) ==
    IF FailedHistory(c) THEN [c EXCEPT !.status = "ok", !.stdout = <<>>]
    ELSE c

\* the answers of a sequence of history commands
AnswersOf(calls) ==
    [i \in 1..Len(calls) |->
        [status |-> calls[i].status, stdout |-> calls[i].stdout]]

\* no history command is run twice for a unit
RunOnce(calls) ==
    \A i, j \in 1..Len(calls) :
        (/\ i < j
         /\ calls[i].call \in HistoryCommands
         /\ calls[i].call = calls[j].call) => calls[i].unit # calls[j].unit

\* C24: a run in which the history command of a unit fails with a non-zero
\* status other than 'not a git repository' continues exactly like the run
\* in which that command succeeds with empty output.  Every step that
\* receives a failed answer leaves the collected records, the opened
\* files, the output and the result as the same step does with the answer
\* 'status 0, no output'; the later steps do not read the answer again.
\* Nothing is written to the error stream, and no history command is run a
\* second time for a unit.
C24_FailureLikeEmpty ==
    [][LET made == SubSeq(run_calls', Len(run_calls) + 1, Len(run_calls'))
           emptied == [i \in 1..Len(made) |-> AsEmpty(made[i])]
           failure == \E i \in 1..Len(made) : FailedHistory(made[i])
       IN
       /\ RunOnce(run_calls')
       /\ (phase = "parent" /\ failure) =>
             LET r == analyze_repository("ok", <<>>, <<>>, enhanced) IN
             /\ Len(made) = 1
             /\ emptied = <<Call("log", <<>>, "ok", <<>>)>> \o OpenCalls(r.items)
             /\ all_changes' = all_changes \o r.items
             /\ run_opened' = run_opened \cup TuplePaths(r.items)
             /\ run_result' = run_result
             /\ phase' = "discover"
       /\ (phase = "submodules" /\ failure) =>
             LET submodule == run_submodules.items[run_next]
                 changes == analyze_submodule_changes("ok", <<>>, submodule,
                                                      enhanced)
             IN
             /\ emptied = SubmoduleCalls(submodule, "ok", <<>>)
                              \o OpenCalls(changes)
             /\ all_changes' = all_changes \o changes
             /\ run_opened' = run_opened \cup TuplePaths(changes)
             /\ run_result' = run_result
             /\ phase' = phase
       /\ (phase = "ownership" /\ failure) =>
             LET units == AuthorUnits(run_submodules.items)
                 logs == SelectSeq(emptied, LAMBDA c : c.call = "author_log")
                 answers == AnswersOf(logs)
             IN
             /\ Len(logs) = Len(units)
             /\ emptied = AuthorCalls(units, answers, 1)
             /\ run_opened' = run_opened \cup AuthorPaths(emptied)
             /\ run_output' = AppendOwnershipReport(run_output,
                                  AllAuthorChanges(units, answers, 1, <<>>))
             /\ run_result' = Returned(run_output')
       /\ phase \notin {"parent", "submodules", "ownership"} =>
             \A i \in 1..Len(made) : made[i].call \notin HistoryCommands
       /\ (printed' # Pending /\ printed'.stream = "stderr") =>
             run_result'.kind # "returned"
      ]_vars

\* a report with an ownership block has been returned by a run in which
\* the history command of a sub-repository and the author history command
\* of a unit failed
C24_Witness ==
    /\ phase = "returned"
    /\ run_result.kind = "returned"
    /\ run_result.text.kind = "report"
    /\ run_result.text.ownership # <<>>
    /\ \E i, j \in 1..Len(run_calls) :
          /\ run_calls[i].call = "log"
          /\ run_calls[i].status = "failed"
          /\ run_calls[j].call = "author_log"
          /\ run_calls[j].status = "failed"

\* a line that names an author: not blank and without a tab
IsAuthorLine(k) == Strip(au_read[k]) # <<>> /\ ~Contains(au_read[k], TAB)

\* the name an author line gives
NameOf(k) == StripChars(Strip(au_read[k]), {"'"})

\* a change line of a file in scope
IsChangeLine(k) ==
    /\ Strip(au_read[k]) # <<>>
    /\ Contains(au_read[k], TAB)
    /\ parse_numstat_line(au_read[k]) # None
    /\ InScope(parse_numstat_line(au_read[k]).filepath)

\* the author of the nearest author line before line k, empty if there is
\* none
AuthorOf(k) ==
    LET before == {a \in 1..(k - 1) : IsAuthorLine(a)}
    IN IF before = {} THEN <<>>
       ELSE NameOf(CHOOSE a \in before : \A b \in before : b <= a)

\* the change lines that follow an author line with a non-empty name
Attributed == {k \in 1..Len(au_read) : IsChangeLine(k) /\ AuthorOf(k) # <<>>}

AttributedTo(author) == {k \in Attributed : AuthorOf(k) = author}

\* the lines read so far, joined as the output they were split from
RECURSIVE JoinLines(_)
JoinLines(lines) ==
    IF lines = <<>> THEN <<>>
    ELSE IF Len(lines) = 1 THEN lines[1]
    ELSE lines[1] \o <<NEWLINE>> \o JoinLines(Tail(lines))

\* C25: the author scan reads the output line by line with two kinds of
\* lines.  After any number of lines the current author is the name of the
\* last author line; every author with a non-empty name has exactly one
\* list, created at the first line that names them, whatever the number of
\* blocks; the list of an author holds, in the order of the lines, exactly
\* the in-scope change lines whose nearest preceding author line names that
\* author; change lines before the first author line or after an empty
\* name are in no list; and the number of entries of all lists is the
\* number of in-scope change lines that follow a non-empty author line.
C25_NearestAuthor ==
    LET author_changes == au_state.author_changes
        last == Len(au_read) + 1
    IN
    /\ au_state.current_author = AuthorOf(last)
    /\ {author_changes[i].author : i \in 1..Len(author_changes)}
           = {NameOf(k) : k \in {a \in 1..Len(au_read) : IsAuthorLine(a)}}
                 \ {<<>>}
    /\ \A i, j \in 1..Len(author_changes) :
          i < j =>
              /\ author_changes[i].author # author_changes[j].author
              /\ \E a \in 1..Len(au_read) :
                    /\ IsAuthorLine(a)
                    /\ NameOf(a) = author_changes[i].author
                    /\ \A b \in 1..a :
                          IsAuthorLine(b) =>
                              NameOf(b) # author_changes[j].author
    /\ \A i \in 1..Len(author_changes) :
          LET mine == AttributedTo(author_changes[i].author)
              changes == author_changes[i].changes
          IN
          /\ Len(changes) = Cardinality(mine)
          /\ \A c \in 1..Len(changes) :
                \E k \in mine :
                    /\ Cardinality({x \in mine : x <= k}) = c
                    /\ changes[c].path = parse_numstat_line(au_read[k]).filepath
                    /\ changes[c].lines
                           = parse_numstat_line(au_read[k]).added
                                 + parse_numstat_line(au_read[k]).deleted
    /\ au_result # Pending =>
          /\ au_result = List(author_changes)
          /\ au_result.items
                 = get_author_changes("ok", JoinLines(au_read), au_submodule)

\* author A is named in two blocks with a change line in each, and both
\* change lines are in A's list
C25_Witness ==
    /\ au_result # Pending
    /\ Len(au_read) = MaxAuthorLines
    /\ \E a, b \in 1..Len(au_read) :
          /\ a + 1 < b
          /\ IsAuthorLine(a) /\ IsAuthorLine(b)
          /\ NameOf(a) = NameOf(b)
          /\ IsChangeLine(a + 1)
          /\ b + 1 \in AttributedTo(NameOf(a))
    /\ Len(au_result.items) = 1
    /\ Len(au_result.items[1].changes) = 2

\* the author history commands run so far
AuthorQueries ==
    {i \in 1..Len(run_calls) : run_calls[i].call = "author_log"}

\* the author history command at position i gave at least one observation
HasObservation(i) ==
    LET unit_changes == get_author_changes(run_calls[i].status,
                                           run_calls[i].stdout,
                                           run_calls[i].unit)
    IN \E k \in 1..Len(unit_changes) : unit_changes[k].changes # <<>>

\* the output carries an ownership block
OwnershipAppended ==
    /\ run_output # Pending
    /\ run_output.kind = "report"
    /\ run_output.ownership # <<>>

\* C26: the ownership block is appended only to a console report that is
\* not enhanced, and only when an author history command gave at least one
\* observation.  In the csv format and in enhanced mode the output never
\* carries the block and the author history is not queried at all; it is
\* queried only after the report has been formatted.
C26_OwnershipOnlyBasicConsole ==
    /\ AuthorQueries # {} =>
          /\ run_format = "console"
          /\ ~enhanced
          /\ run_output # Pending
          /\ run_output.kind = "report"
    /\ OwnershipAppended =>
          /\ run_format = "console"
          /\ ~enhanced
          /\ \E i \in AuthorQueries : HasObservation(i)
    /\ (run_format = "csv" \/ enhanced) =>
          /\ AuthorQueries = {}
          /\ ~OwnershipAppended
    /\ run_result.kind = "returned" =>
          /\ run_result.text.kind = "message" => AuthorQueries = {}
          /\ run_result.text.kind = "report" =>
                /\ run_result.text = run_output
                /\ (AuthorQueries # {} /\ \A i \in AuthorQueries :
                                              ~HasObservation(i))
                       => run_result.text.ownership = <<>>

\* a console report that is not enhanced was returned with an ownership
\* block, one author history command having failed and another having
\* given observations
C26_Witness ==
    /\ run_result.kind = "returned"
    /\ OwnershipAppended
    /\ run_format = "console"
    /\ \E i, j \in AuthorQueries :
          /\ run_calls[i].status = "failed"
          /\ HasObservation(j)

\* analyze has returned
RunReturned == run_result # Pending /\ run_result.kind = "returned"

\* the namespaces of the collected records that reach the threshold
ReachThreshold ==
    {ns \in {all_changes[i].namespace : i \in 1..Len(all_changes)} :
        NamespaceVolume(all_changes, ns) >= min_threshold}

\* C27: a formatter is called only with a non-empty list, so that the
\* first item the detailed console formatter looks at exists.  A run
\* without any change record returns the 'no changes' message, a run in
\* which no namespace reaches the threshold returns the 'no namespaces'
\* message with the threshold, and in both cases no formatter has run, the
\* author history was not queried and no ownership block exists; a run in
\* which a namespace reaches the threshold returns a report.
C27_FormatterNeverEmpty ==
    /\ run_output # Pending =>
          /\ run_output.kind = "report"
          /\ run_output.rows # <<>>
          /\ filtered # <<>>
          /\ ReachThreshold # {}
    /\ RunReturned =>
          /\ run_result.text = NoChangesMessage <=> all_changes = <<>>
          /\ run_result.text = BelowThresholdMessage(min_threshold)
                 <=> (all_changes # <<>> /\ ReachThreshold = {})
          /\ run_result.text.kind = "report" <=> ReachThreshold # {}
          /\ run_result.text.kind = "message" =>
                /\ run_output = Pending
                /\ AuthorQueries = {}
                /\ \A i \in 1..Len(run_calls) :
                      run_calls[i].call # "author_log"
          /\ run_result.text.kind = "report" =>
                /\ run_result.text.rows # <<>>
                /\ run_result.text.rows[1].namespace \in ReachThreshold

\* the 'no namespaces' message was returned by a run that collected
\* records, none of whose namespaces reaches the threshold
C27_Witness ==
    /\ RunReturned
    /\ run_result.text = BelowThresholdMessage(min_threshold)
    /\ Len(all_changes) > 1
    /\ aggregated # <<>>
    /\ filtered = <<>>
    /\ run_output = Pending

\* the tuples the basic mode builds from the same history lines: the sum
\* of additions and deletions in place of the two counts
BasicChanges ==
    [i \in 1..Len(all_changes) |->
        [namespace |-> all_changes[i].namespace,
         lines |-> all_changes[i].additions + all_changes[i].deletions,
         path |-> all_changes[i].path]]

\* the keys of a dictionary or of a sorted list of items, in order
KeyOrder(dict) == [i \in 1..Len(dict) |-> dict[i].namespace]

\* thresholds on both sides of every total of the aggregate
ThresholdsAround ==
    Thresholds \cup {0}
        \cup {aggregated[i].total : i \in 1..Len(aggregated)}
        \cup {aggregated[i].total + 1 : i \in 1..Len(aggregated)}

\* C28: on the same history the basic and the enhanced aggregation agree.
\* They have the same keys in the same order; for every namespace
\* lines_changed equals total, the file counts are equal, and the file
\* lists hold the same paths in the same order, the lines of a file being
\* its total; and for every threshold the same namespaces survive the
\* filter and are ranked in the same order.
C28_BasicAgreesWithEnhanced ==
    (enhanced /\ AggregationDone) =>
        LET basic == aggregate(BasicChanges) IN
        /\ KeyOrder(basic) = KeyOrder(aggregated)
        /\ \A i \in 1..Len(basic) :
              /\ basic[i].lines_changed = aggregated[i].total
              /\ basic[i].lines_changed
                     = aggregated[i].additions + aggregated[i].deletions
              /\ basic[i].file_count = aggregated[i].file_count
              /\ Len(basic[i].files) = Len(aggregated[i].files)
              /\ \A j \in 1..Len(basic[i].files) :
                    /\ basic[i].files[j].path = aggregated[i].files[j].path
                    /\ basic[i].files[j].lines = aggregated[i].files[j].total
        /\ \A threshold \in ThresholdsAround :
              /\ KeyOrder(filter_by_threshold(basic, threshold))
                     = KeyOrder(filter_enhanced(aggregated, threshold))
              /\ KeyOrder(sort_by_churn(filter_by_threshold(basic, threshold)))
                     = KeyOrder(sort_by_total(filter_enhanced(aggregated,
                                                              threshold)))

\* two namespaces, one below the threshold, the other with two files of
\* the same total that differ in additions and deletions
C28_Witness ==
    /\ enhanced
    /\ phase = "filtered"
    /\ Len(aggregated) = 2
    /\ Len(filtered) = 1
    /\ \E i \in 1..Len(aggregated) :
          /\ Len(aggregated[i].files) = 2
          /\ aggregated[i].files[1].total = aggregated[i].files[2].total
          /\ aggregated[i].files[1].additions
                 # aggregated[i].files[2].additions
          /\ aggregated[i].files[1].path # aggregated[i].files[2].path

\* the condition of each rule of the classifier, as the code tests it once
\* the total is known not to be zero
RuleHolds(rule, a, d) ==
    /\ a + d # 0
    /\ IF rule = "growth" THEN RatioAtLeast(a, a + d, RatioTenths)
       ELSE IF rule = "cleanup" THEN RatioAtLeast(d, a + d, RatioTenths)
       ELSE /\ a > ChurnMinLines
            /\ d > ChurnMinLines
            /\ Balanced(d, a)
            /\ Balanced(a, d)

Rules == {"growth", "cleanup", "churn"}

RuleOrders ==
    {order \in [1..3 -> Rules] : \A i, j \in 1..3 : i # j => order[i] # order[j]}

\* the label when the rules are tried in the given order
LabelInOrder(order, a, d) ==
    IF RuleHolds(order[1], a, d) THEN order[1]
    ELSE IF RuleHolds(order[2], a, d) THEN order[2]
    ELSE IF RuleHolds(order[3], a, d) THEN order[3]
    ELSE "normal"

\* C29: for non-negative additions and deletions no two of the growth,
\* cleanup and churn conditions hold together, so the label does not
\* depend on the order in which the rules are tried: every order gives the
\* label detect_pattern returns.
C29_RulesExclusive ==
    Classified =>
        /\ \A r, s \in Rules :
              (/\ RuleHolds(r, pd_additions, pd_deletions)
               /\ RuleHolds(s, pd_additions, pd_deletions)) => r = s
        /\ \A order \in RuleOrders :
              LabelInOrder(order, pd_additions, pd_deletions) = pd_result
        /\ \A r \in Rules :
              RuleHolds(r, pd_additions, pd_deletions) <=> pd_result = r

\* a pair classified as churn with more deletions than additions: the
\* churn condition holds and is the last rule tried
C29_Witness ==
    /\ Classified
    /\ pd_result = "churn"
    /\ pd_deletions > pd_additions
    /\ RuleHolds("churn", pd_additions, pd_deletions)

\* the rearrangements of the collected change tuples
Rearrangements ==
    LET n == Len(all_changes)
        orders == {p \in [1..n -> 1..n] :
                      \A i, j \in 1..n : i # j => p[i] # p[j]}
    IN {[i \in 1..n |-> all_changes[p[i]]] : p \in orders}

\* the change tuples with two neighbours exchanged; every rearrangement is
\* a chain of such exchanges
Exchanges ==
    {[i \in 1..Len(all_changes) |->
         IF i = k THEN all_changes[k + 1]
         ELSE IF i = k + 1 THEN all_changes[k]
         ELSE all_changes[i]] : k \in 1..(Len(all_changes) - 1)}

\* how often a file entry stands in a file list
Occurrences(files, entry) ==
    Cardinality({i \in 1..Len(files) : files[i] = entry})

\* two aggregates agree up to the order of their keys and of their files
SameUpToOrder(one, other) ==
    /\ Len(one) = Len(other)
    /\ Keys(one) = Keys(other)
    /\ \A i \in 1..Len(one) :
          LET m == one[i]
              o == other[KeyIndex(other, m.namespace)]
          IN
          /\ m.additions = o.additions
          /\ m.deletions = o.deletions
          /\ m.total = o.total
          /\ m.file_count = o.file_count
          /\ m.pattern = o.pattern
          /\ Len(m.files) = Len(o.files)
          /\ \A j \in 1..Len(m.files) :
                Occurrences(m.files, m.files[j])
                    = Occurrences(o.files, m.files[j])

\* equal up to the order of keys, with every file list in the same order
\* wherever the totals of the files differ
OnlyTiesMove(one, other) ==
    \A i \in 1..Len(one) :
        LET m == one[i]
            o == other[KeyIndex(other, m.namespace)]
        IN \A j \in 1..Len(m.files) :
               /\ m.files[j].total = o.files[j].total
               /\ (\A k \in 1..Len(m.files) :
                      k # j => m.files[k].total # m.files[j].total)
                      => m.files[j] = o.files[j]

\* C30: the enhanced aggregation does not depend on the order of its
\* input for the totals: every rearrangement of the change tuples gives
\* for every namespace the same additions, deletions, total, file count
\* and pattern and the same file entries with the same multiplicities.
\* What can differ is the order of the keys and the relative order of
\* files with equal totals.  Checked for every exchange of two neighbours
\* in every list of change tuples, which carries over to every
\* rearrangement, both relations being transitive.
C30_OrderInsensitive ==
    (enhanced /\ phase = "aggregated") =>
        \A changes \in Exchanges :
            LET other == aggregate_with_details(changes) IN
            /\ SameUpToOrder(aggregated, other)
            /\ OnlyTiesMove(aggregated, other)

\* three change tuples of two namespaces, two files with equal totals in
\* one of them, and a rearrangement that changes the order of the keys
C30_Witness ==
    /\ enhanced
    /\ phase = "aggregated"
    /\ Len(all_changes) = 3
    /\ Len(aggregated) = 2
    /\ \E i \in 1..Len(aggregated) :
          /\ Len(aggregated[i].files) = 2
          /\ aggregated[i].files[1].total = aggregated[i].files[2].total
          /\ aggregated[i].files[1] # aggregated[i].files[2]
    /\ \E changes \in Rearrangements :
          KeyOrder(aggregate_with_details(changes)) # KeyOrder(aggregated)

====
